---- MODULE Spec2Model ----
(***************************************************************************)
(* Admission layer (src/ddos_protection.py) and reverse proxy              *)
(* (src/reverse_proxy.py) of the repository, as state machines.            *)
(*                                                                         *)
(* Strings that the code takes apart (backend URLs, affinity tokens,       *)
(* client addresses) are sequences of one-character strings, so that       *)
(* split, concatenation and ord() are computed as the code computes them.  *)
(***************************************************************************)
EXTENDS Integers, Sequences, FiniteSets, TLC

(***************************************************************************)
(* Bounds of the model.                                                    *)
(***************************************************************************)
\* requests the proxy forwards in one run (caps the cursor and the statistics):
\* with two configured nodes, and with three (round robin)
MaxRequests == 3
MaxRequestsRR == 4
\* ticks of the clock of the admission layer
MaxTime == 3
\* largest rate ceiling the admission layer is configured with
MaxRateLimit == 2
\* requests of one source counted by one rate counter before it is reset
MaxBurst == 3
\* errors raised by the remote store in one behaviour
MaxStoreErrors == 1
MaxOutageErrors == 4
\* requests the application serves at the same time
MaxInFlight == 2
\* requests that arrive at the application in one behaviour
MaxArrivals == 3

(***************************************************************************)
(* Generic helpers.                                                        *)
(***************************************************************************)
Range(s) == {s[i] : i \in 1..Len(s)}

\* Python: x in list
InList(x, s) == \E i \in 1..Len(s) : s[i] = x

(***************************************************************************)
(*                         REVERSE PROXY                                   *)
(***************************************************************************)

\* "http://a:1", "http://b:2", "https://c:3" (config.backend_nodes, in
\* the order of the --backends argument)
NodeA == <<"h","t","t","p",":","/","/","a",":","1">>
NodeB == <<"h","t","t","p",":","/","/","b",":","2">>
NodeC == <<"h","t","t","p","s",":","/","/","c",":","3">>
Nodes == {NodeA, NodeB, NodeC}

\* client addresses "10.0.0.1", "10.0.0.2", "10.0.0.4"
IP1 == <<"1","0",".","0",".","0",".","1">>
IP2 == <<"1","0",".","0",".","0",".","2">>
IP3 == <<"1","0",".","0",".","0",".","4">>
ClientIPs == {IP1, IP2, IP3}

\* values of the SERVERID cookie a client may send; None: no such cookie
None == <<"<None>">>
ValueError == <<"<ValueError>">>
Cookies == { None,
             <<>>,                          \* "SERVERID="
             <<"a","_","1">>,               \* decodes to http://a:1
             <<"b","_","2">>,               \* decodes to http://b:2
             <<"c","_","3">>,               \* decodes to http://c:3 (not a node)
             <<"a","1">>,                   \* no underscore
             <<"a","_","1","_","1">> }      \* two underscores

Algorithms == {"round_robin", "least_connections", "ip_hash"}

\* Python: ord(c) for the characters of an address
Ord(c) ==
    CASE c = "." -> 46
      [] c = "0" -> 48 [] c = "1" -> 49 [] c = "2" -> 50 [] c = "3" -> 51
      [] c = "4" -> 52 [] c = "5" -> 53 [] c = "6" -> 54 [] c = "7" -> 55
      [] c = "8" -> 56 [] c = "9" -> 57

RECURSIVE CharSum(_)
\* sum(ord(c) for c in client_ip)
CharSum(s) == IF s = <<>> THEN 0 ELSE Ord(Head(s)) + CharSum(Tail(s))

\* Python: s.split('_'), as the sequence of the parts
RECURSIVE SplitUnderscore(_, _, _)
SplitUnderscore(s, cur, acc) ==
    IF s = <<>> THEN Append(acc, cur)
    ELSE IF Head(s) = "_" THEN SplitUnderscore(Tail(s), <<>>, Append(acc, cur))
    ELSE SplitUnderscore(Tail(s), Append(cur, Head(s)), acc)

Split(s) == SplitUnderscore(s, <<>>, <<>>)

\* f"http://{host}:{port}"
StickyUrl(host, port) == <<"h","t","t","p",":","/","/">> \o host \o <<":">> \o port

VARIABLES
    backend_nodes,    \* config.backend_nodes
    algorithm,        \* config.algorithm
    sticky_sessions,  \* config.sticky_sessions
    active_nodes,     \* cluster_state.active_nodes
    node_stats,       \* cluster_state.node_stats: node -> record, or NoStats
    node_index,       \* cluster_state.node_index
    phase,            \* "init" (first cycle of run_proxy_server), "serving", "crashed"
    mon,              \* update_cluster_state: position in the loop, healthy_nodes so far
    h,                \* the request the (single-threaded) HTTPServer is handling
    out,              \* status lines written to the client for the last request
    set_cookie,       \* value of the SERVERID cookie set with the last response, or None
    rrLog,            \* nodes returned by cursor selections since the list last changed
    hashPick,         \* per address: node of its ip_hash selections since the list last changed
    streak            \* per node: -1 never probed, 0 last probe passed, k: k failed in a row

proxyVars == <<backend_nodes, algorithm, sticky_sessions, active_nodes, node_stats, node_index,
               phase, mon, h, out, set_cookie, rrLog, hashPick, streak>>

NoStats == [connections |-> -1, requests |-> -1, errors |-> -1]
NewStats == [connections |-> 0, requests |-> 0, errors |-> 0]
\* Python: node in node_stats
HasStats(stats, node) == node \in DOMAIN stats /\ stats[node] # NoStats

\* a dict of headers: a function from the names, as written, to the values
NoHeaders == <<>>

\* view: what send_proxy_status has read so far, None outside it
Idle == [pc |-> "idle", backend |-> None, sticky |-> FALSE,
         sent |-> NoHeaders, headers |-> NoHeaders, view |-> None]

\* the configurations explored: every algorithm with and without sticky
\* sessions over two nodes, and round robin over three
ConfigsTwo ==
    [backend_nodes : {<<NodeB, NodeA>>}, algorithm : Algorithms, sticky_sessions : BOOLEAN]
ConfigsRR ==
    [backend_nodes : {<<NodeB, NodeA, NodeC>>}, algorithm : {"round_robin"},
     sticky_sessions : {FALSE}]

ConfigsSticky ==
    [backend_nodes : {<<NodeC, NodeA>>}, algorithm : {"round_robin"},
     sticky_sessions : BOOLEAN]

\* run_proxy_server before its first update_cluster_state
ProxyInit(Configs) ==
    /\ \E c \in Configs :
          /\ backend_nodes = c.backend_nodes
          /\ algorithm = c.algorithm
          /\ sticky_sessions = c.sticky_sessions
    /\ active_nodes = <<>>
    /\ node_stats = [n \in Nodes |-> NoStats]
    /\ node_index = 0
    /\ phase = "init"
    /\ mon = [i |-> 1, healthy_nodes |-> <<>>]
    /\ h = Idle
    /\ out = <<>>
    /\ set_cookie = None
    /\ rrLog = <<>>
    /\ hashPick = [ip \in ClientIPs |-> None]
    /\ streak = [n \in Nodes |-> -1]

(***************************************************************************)
(* select_node                                                             *)
(***************************************************************************)

\* the sticky branch: the node the token decodes to when it is in the list,
\* None when the branch falls through, ValueError when the unpacking of
\* split('_') raises
StickyPick(nodes, sticky_node) ==
    IF sticky_node = None \/ sticky_node = <<>> THEN None
    ELSE IF ~ InList("_", sticky_node) THEN None
    ELSE LET parts == Split(sticky_node) IN
         IF Len(parts) # 2 THEN ValueError
         ELSE LET sticky_url == StickyUrl(parts[1], parts[2]) IN
              IF InList(sticky_url, nodes) THEN sticky_url ELSE None

RoundRobinPick(nodes, index) == nodes[(index % Len(nodes)) + 1]

\* a comparison with which min() would return the last of equal minima
KeyLessOrEqual(a, b) == a <= b

\* Python: a < b, the comparison min() uses to replace its candidate
KeyLess(a, b) == a < b

RECURSIVE MinFrom(_, _, _, _)
\* Python: min(nodes, key=...): the first element is the candidate, a later
\* one replaces it only when its key is smaller
MinFrom(nodes, stats, i, best) ==
    IF i > Len(nodes) THEN best
    ELSE IF KeyLess(stats[nodes[i]].connections, stats[best].connections)
         THEN MinFrom(nodes, stats, i + 1, nodes[i])
         ELSE MinFrom(nodes, stats, i + 1, best)

LeastConnectionsPick(nodes, stats) == MinFrom(nodes, stats, 2, nodes[1])

\* a hash that looks at the length of the address only
IpHashByLength(nodes, client_ip) == nodes[(Len(client_ip) % Len(nodes)) + 1]

IpHashPick(nodes, client_ip) == nodes[(CharSum(client_ip) % Len(nodes)) + 1]

UsesCursor(alg) == alg \notin {"least_connections", "ip_hash"}

\* what select_node returns: a node, None, or ValueError when it raises
SelectNode(nodes, stats, index, alg, client_ip, sticky_node) ==
    IF nodes = <<>> THEN None
    ELSE LET s == StickyPick(nodes, sticky_node) IN
         IF s # None THEN s
         ELSE IF alg = "round_robin" THEN RoundRobinPick(nodes, index)
         ELSE IF alg = "least_connections" THEN LeastConnectionsPick(nodes, stats)
         ELSE IF alg = "ip_hash" THEN IpHashPick(nodes, client_ip)
         ELSE RoundRobinPick(nodes, index)

\* a cursor that advances on sticky selections too
CursorMovesAlways(nodes, alg, sticky_node) ==
    /\ nodes # <<>>
    /\ UsesCursor(alg)

\* whether that call of select_node advances the cursor
CursorMoves(nodes, alg, sticky_node) ==
    /\ nodes # <<>>
    /\ StickyPick(nodes, sticky_node) = None
    /\ UsesCursor(alg)

\* a cursor that advances by two
NextIndexByTwo(nodes, index, alg, sticky_node) ==
    IF CursorMoves(nodes, alg, sticky_node) THEN index + 2 ELSE index

\* cluster_state.node_index after the call
NextIndex(nodes, index, alg, sticky_node) ==
    IF CursorMoves(nodes, alg, sticky_node) THEN index + 1 ELSE index

(***************************************************************************)
(* handle_request                                                          *)
(***************************************************************************)

\* the SERVERID value handle_request passes on: read only with sticky sessions
StickyNodeOf(cookie) == IF sticky_sessions THEN cookie ELSE None

\* node_stats[backend]["connections"] += 1, when the node has a record
TrackConnection(stats, backend) ==
    IF HasStats(stats, backend)
    THEN [stats EXCEPT ![backend].connections = @ + 1]
    ELSE stats

\* success path: connections -= 1, requests += 1
UpdateStats(stats, backend) ==
    IF HasStats(stats, backend)
    THEN [stats EXCEPT ![backend].connections = @ - 1, ![backend].requests = @ + 1]
    ELSE stats

\* except path: errors += 1 (the connection count is left as it is)
MarkError(stats, backend) ==
    IF HasStats(stats, backend)
    THEN [stats EXCEPT ![backend].errors = @ + 1]
    ELSE stats

\* requests dispatched to a node so far (finished or in flight)
RoutedTo(n) == IF HasStats(node_stats, n)
               THEN node_stats[n].requests + node_stats[n].errors ELSE 0
Routed == RoutedTo(NodeA) + RoutedTo(NodeB) + RoutedTo(NodeC)
          + (IF h.pc = "fwd" THEN 1 ELSE 0)

RequestCap == IF Len(backend_nodes) = 3 THEN MaxRequestsRR ELSE MaxRequests

\* a check that lets a missing backend through
NoBackendIgnored(backend) == FALSE

\* Python: not backend
NoBackend(backend) == backend = None

\* the inputs handle_request reads: the address matters to ip_hash only, the
\* cookie with sticky sessions only
RequestIPs == IF algorithm = "ip_hash" THEN ClientIPs ELSE {IP1}
RequestCookies == IF sticky_sessions THEN Cookies ELSE {None}

\* whether select_node returned from the algorithm branch with this algorithm
ByAlgorithm(alg, nodes, sticky_node) ==
    /\ nodes # <<>>
    /\ StickyPick(nodes, sticky_node) = None
    /\ algorithm = alg

\* Python: str.lower() of a header name
Lower(name) ==
    CASE name = "Connection" -> "connection"
      [] name = "CONNECTION" -> "connection"
      [] name = "Keep-Alive" -> "keep-alive"
      [] name = "TE" -> "te"
      [] name = "Upgrade" -> "upgrade"
      [] name = "Transfer-Encoding" -> "transfer-encoding"
      [] name = "Host" -> "host"
      [] name = "Accept" -> "accept"
      [] name = "X-Forwarded-For" -> "x-forwarded-for"
      [] OTHER -> name

hop_by_hop_headers ==
    <<"connection", "keep-alive", "proxy-authenticate", "proxy-authorization", "te",
      "trailers", "transfer-encoding", "upgrade">>

\* Python: del d[k]
Del(d, k) == [n \in DOMAIN d \ {k} |-> d[n]]

\* Python: d[k] = v
Put(d, k, v) == [n \in DOMAIN d \cup {k} |-> IF n = k THEN v ELSE d[n]]

\* if header in headers: del headers[header]
DelHeader(d, header) == IF header \in DOMAIN d THEN Del(d, header) ELSE d

RECURSIVE StripHopByHop(_, _)
\* the loop over hop_by_hop_headers, from its i-th element on
StripHopByHop(d, i) ==
    IF i > Len(hop_by_hop_headers) THEN d
    ELSE StripHopByHop(DelHeader(d, hop_by_hop_headers[i]), i + 1)

\* self.headers.get(name, ''): the lookup of the message object ignores case
GetHeader(d, name) ==
    IF \E n \in DOMAIN d : Lower(n) = name
    THEN d[CHOOSE n \in DOMAIN d : Lower(n) = name] ELSE ""

\* url.scheme of a backend URL
Scheme(backend) ==
    IF Len(backend) >= 5 /\ SubSeq(backend, 1, 5) = <<"h","t","t","p","s">>
    THEN "https" ELSE "http"

\* the headers of the request sent to the backend
ForwardHeaders(sent, client_ip, backend) ==
    Put(Put(Put(Put(StripHopByHop(sent, 1),
                    "X-Forwarded-For", client_ip),
                "X-Forwarded-Host", GetHeader(sent, "host")),
            "X-Forwarded-Proto", Scheme(backend)),
        "X-Proxy-ID", "proxy-1")

\* the header blocks a client sends. The selection does not read them (the
\* cookie is an input of its own), so they are varied in one configuration
PlainHeaders == [n \in {"Host", "Accept"} |-> "v"]
RequestHeaders ==
    IF algorithm = "least_connections" /\ ~ sticky_sessions
    THEN { PlainHeaders,
           [n \in {"Host", "connection", "te"} |-> "v"],
           [n \in {"Host", "Connection", "Accept"} |-> "v"],
           [n \in {"Upgrade", "X-Forwarded-For", "keep-alive"} |-> "v"] }
    ELSE { PlainHeaders }

\* handle_request up to the point where it blocks on the upstream connection
HandleRequest(client_ip, cookie) ==
    /\ phase = "serving"
    /\ h.pc = "idle"
    /\ Routed < RequestCap
    /\ LET sticky_node == StickyNodeOf(cookie)
           backend == SelectNode(active_nodes, node_stats, node_index, algorithm,
                                 client_ip, sticky_node)
       IN  IF backend = ValueError
           THEN \* the exception leaves handle_request: no response is written
                /\ out' = <<>>
                /\ UNCHANGED <<h, node_stats, node_index, rrLog, hashPick>>
           ELSE IF NoBackend(backend)
           THEN /\ out' = <<503>>
                /\ UNCHANGED <<h, node_stats, node_index, rrLog, hashPick>>
           ELSE /\ node_index' = NextIndex(active_nodes, node_index, algorithm, sticky_node)
                /\ rrLog' = IF CursorMoves(active_nodes, algorithm, sticky_node)
                            THEN Append(rrLog, backend) ELSE rrLog
                /\ node_stats' = TrackConnection(node_stats, backend)
                /\ hashPick' = IF ByAlgorithm("ip_hash", active_nodes, sticky_node)
                               THEN [hashPick EXCEPT ![client_ip] = backend]
                               ELSE hashPick
                /\ \E sent \in RequestHeaders :
                      h' = [pc |-> "fwd", backend |-> backend,
                            sticky |-> StickyPick(active_nodes, sticky_node) # None,
                            sent |-> sent,
                            headers |-> ForwardHeaders(sent, client_ip, backend),
                            view |-> None]
                /\ out' = <<>>
    /\ set_cookie' = None
    /\ UNCHANGED <<backend_nodes, algorithm, sticky_sessions, active_nodes, phase, mon, streak>>

\* Python: s.replace(old, new) on strings as sequences of characters
RECURSIVE Replace(_, _, _)
Replace(s, old, new) ==
    IF Len(s) < Len(old) THEN s
    ELSE IF SubSeq(s, 1, Len(old)) = old
         THEN new \o Replace(SubSeq(s, Len(old) + 1, Len(s)), old, new)
         ELSE <<Head(s)>> \o Replace(Tail(s), old, new)

\* backend_id: backend.replace('http://', '').replace('https://', '').replace(':', '_')
BackendId(backend) ==
    Replace(Replace(Replace(backend, <<"h","t","t","p",":","/","/">>, <<>>),
                    <<"h","t","t","p","s",":","/","/">>, <<>>),
            <<":">>, <<"_">>)

\* the Set-Cookie header handle_request adds after send_response
SetCookie(backend, status) ==
    IF sticky_sessions /\ status < 400 THEN BackendId(backend) ELSE None

\* the upstream answered and the response was relayed
ForwardOk(status) ==
    /\ h.pc = "fwd"
    /\ out' = <<status>>
    /\ set_cookie' = SetCookie(h.backend, status)
    /\ node_stats' = UpdateStats(node_stats, h.backend)
    /\ h' = Idle
    /\ UNCHANGED <<backend_nodes, algorithm, sticky_sessions, active_nodes, node_index, phase, mon,
                   rrLog, hashPick, streak>>

\* an exception inside the try block, before or after send_response
ForwardFail(relayed, status) ==
    /\ h.pc = "fwd"
    /\ out' = IF relayed THEN <<status, 502>> ELSE <<502>>
    /\ set_cookie' = IF relayed THEN SetCookie(h.backend, status) ELSE None
    /\ node_stats' = MarkError(node_stats, h.backend)
    /\ h' = Idle
    /\ UNCHANGED <<backend_nodes, algorithm, sticky_sessions, active_nodes, node_index, phase, mon,
                   rrLog, hashPick, streak>>

(***************************************************************************)
(* send_proxy_status                                                       *)
(***************************************************************************)

\* the keys of node_stats
StatsKeys(stats) == {n \in Nodes : HasStats(stats, n)}

\* the status dict is built: it holds the list that is installed now and a
\* reference to the statistics map. No lock is taken
SendProxyStatus ==
    /\ phase = "serving"
    /\ h.pc = "idle"
    /\ h' = [Idle EXCEPT !.pc = "status",
                         !.view = [active_nodes |-> active_nodes,
                                   keys |-> StatsKeys(node_stats)]]
    /\ out' = <<>>
    /\ set_cookie' = None
    /\ UNCHANGED <<backend_nodes, algorithm, sticky_sessions, active_nodes, node_stats,
                   node_index, phase, mon, rrLog, hashPick, streak>>

\* json.dumps walks the statistics map as it is now and the response is
\* written. raised: the map got a new key since the walk began and the
\* iteration raises RuntimeError, which leaves the handler without a response
DumpStatus(raised) ==
    /\ h.pc = "status"
    /\ raised => StatsKeys(node_stats) # h.view.keys
    /\ out' = IF raised THEN <<>> ELSE <<200>>
    /\ h' = Idle
    /\ UNCHANGED <<backend_nodes, algorithm, sticky_sessions, active_nodes, node_stats,
                   node_index, phase, mon, set_cookie, rrLog, hashPick, streak>>

(***************************************************************************)
(* health_check, update_cluster_state, cluster_health_monitor              *)
(***************************************************************************)

\* what a probe can bring back: no 200 in time (or an unparsable body), a 200
\* whose JSON body is an object (or empty), a 200 whose JSON body is a
\* non-empty value without .get (a list, a string, a number)
ProbeResults == {"fail", "ok", "ok_not_object"}

\* is_healthy of health_check
IsHealthy(result) == result # "fail"

\* a loop body that gives a node a new record whenever its probe succeeds
InitStatsAfresh(stats, node, result) ==
    IF IsHealthy(result)
    THEN [stats EXCEPT ![node] = NewStats]
    ELSE stats

\* node_stats after the body of the loop for one node
InitStats(stats, node, result) ==
    IF IsHealthy(result) /\ ~ HasStats(stats, node)
    THEN [stats EXCEPT ![node] = NewStats]
    ELSE stats

\* one iteration of the loop of update_cluster_state
ProbeStep(node, result) ==
    /\ node_stats' = InitStats(node_stats, node, result)
    /\ IF result = "ok_not_object"
       THEN \* node_data.get raises: update_cluster_state is left
            IF phase = "init"
            THEN /\ phase' = "crashed"
                 /\ UNCHANGED mon
            ELSE /\ mon' = [i |-> 1, healthy_nodes |-> <<>>]
                 /\ UNCHANGED phase
       ELSE /\ mon' = [i |-> mon.i + 1,
                       healthy_nodes |-> IF IsHealthy(result)
                                         THEN Append(mon.healthy_nodes, node)
                                         ELSE mon.healthy_nodes]
            /\ UNCHANGED phase

NextStreak(old, result) ==
    IF IsHealthy(result) THEN 0
    ELSE IF old < 0 THEN 1
    ELSE IF old >= 3 THEN 3 ELSE old + 1

Probe(result) ==
    /\ phase # "crashed"
    /\ mon.i <= Len(backend_nodes)
    /\ ProbeStep(backend_nodes[mon.i], result)
    /\ UNCHANGED <<backend_nodes, algorithm, sticky_sessions, active_nodes, node_index, h, out, set_cookie,
                   rrLog, hashPick, streak>>

\* the same step, with the run of failed probes of each node recorded
ProbeCounted(result) ==
    /\ phase # "crashed"
    /\ mon.i <= Len(backend_nodes)
    /\ ProbeStep(backend_nodes[mon.i], result)
    /\ streak' = [streak EXCEPT ![backend_nodes[mon.i]] = NextStreak(@, result)]
    /\ UNCHANGED <<backend_nodes, algorithm, sticky_sessions, active_nodes, node_index, h, out, set_cookie,
                   rrLog, hashPick>>

\* the end of update_cluster_state: the list is replaced
Publish ==
    /\ phase # "crashed"
    /\ mon.i = Len(backend_nodes) + 1
    /\ active_nodes' = mon.healthy_nodes
    /\ rrLog' = IF mon.healthy_nodes = active_nodes THEN rrLog ELSE <<>>
    /\ hashPick' = IF mon.healthy_nodes = active_nodes THEN hashPick
                   ELSE [ip \in ClientIPs |-> None]
    /\ mon' = [i |-> 1, healthy_nodes |-> <<>>]
    /\ phase' = "serving"
    /\ UNCHANGED <<backend_nodes, algorithm, sticky_sessions, node_stats, node_index, h, out, set_cookie,
                   streak>>


(***************************************************************************)
(*                         ADMISSION LAYER                                 *)
(***************************************************************************)

\* DDoSConfig, with the durations in ticks of the model's clock: the rate
\* window of the remote store spans two ticks, so that requests less than a
\* window apart can be told from requests made at the same time
RATE_LIMIT_WINDOW == 2
CLEANUP_INTERVAL == 2
BLACKLIST_THRESHOLD == 2
BLACKLIST_DURATION == 3
ANOMALY_WINDOW == 2
\* DDoSConfig.ANOMALY_THRESHOLD, 0.8, in hundredths
ANOMALY_THRESHOLD == 80
CONNECTION_TIMEOUT == 1
MAX_CONNECTIONS_PER_IP == 2
WHITELISTED_IPS == {"127.0.0.1"}

\* request.remote_addr
IPs == {"8.8.8.8", "1.2.3.4", "127.0.0.1"}
\* the addresses of the clients of the protected application
AppIPs == {"8.8.8.8", "127.0.0.1"}

\* the request slots of the application (its worker threads)
Slots == 1..MaxInFlight

VARIABLES
    REDIS_AVAILABLE,   \* module flag: the remote store is in use
    RATE_LIMIT,        \* DDoSConfig.RATE_LIMIT
    now,               \* time.time()
    IP_REQUEST_COUNTS, \* in-memory request counters
    LAST_CLEANUP,      \* time of the last sweep
    BLACKLISTED_IPS,   \* in-memory blacklist
    redis,             \* the remote store: key -> [live, v, exp]
    ANOMALY_DETECTION_ENABLED, \* DDoSConfig.ANOMALY_DETECTION_ENABLED
    ANOMALY_TRACKING,  \* in-memory request timestamps per source
    anomaly,           \* the sorted sets anomaly:<ip> of the remote store
    storeErrors,       \* errors the remote store has raised so far
    IP_CONNECTIONS,    \* in-memory connection counters
    connections,       \* the connection counters of the WSGI middleware
    reqs,              \* per slot: the request in it and its position in the application
    arrivals,          \* requests that have arrived so far
    seen,              \* per source: its requests through rate_limit in the current window
    clean,             \* per source: no store error in the current window
    sent,              \* per source: times of its counted requests of the last window
    admitted,          \* per source: times of its requests admitted in memory in the last window
    owed,              \* per source: time until which its rejections call for a blacklisting
    rejections,        \* per source: rate-exceeded rejections not yet counted in owed
    last               \* the last call of an admission entry point and its outcome

admVars == <<REDIS_AVAILABLE, RATE_LIMIT, now, IP_REQUEST_COUNTS, LAST_CLEANUP,
             BLACKLISTED_IPS, redis, ANOMALY_DETECTION_ENABLED, ANOMALY_TRACKING,
             anomaly, storeErrors, IP_CONNECTIONS, connections, reqs, arrivals,
             seen, clean, sent, admitted, owed, rejections, last>>

configVars == <<REDIS_AVAILABLE, RATE_LIMIT, ANOMALY_DETECTION_ENABLED>>
rateVars == <<IP_REQUEST_COUNTS, LAST_CLEANUP, ANOMALY_TRACKING, anomaly>>
windowVars == <<seen, clean, sent, admitted>>
pipeVars == <<IP_CONNECTIONS, connections, reqs, arrivals>>

\* keys of the remote store
RateKey(ip) == <<"rate_limit", ip>>
ViolationKey(ip) == <<"violations", ip>>
BlacklistKey(ip) == <<"blacklist", ip>>
ConnectionsKey(ip) == <<"connections", ip>>
SlowKey(ip) == <<"slow", ip>>
Keys == {"rate_limit", "violations", "blacklist", "connections", "slow"} \X IPs

NoTTL == -1
Absent == [live |-> FALSE, v |-> 0, exp |-> NoTTL]

\* redis_client.incr(key)
Incr(db, key) ==
    [db EXCEPT ![key] = IF @.live THEN [@ EXCEPT !.v = @ + 1]
                        ELSE [live |-> TRUE, v |-> 1, exp |-> NoTTL]]

\* redis_client.expire(key, ttl) at time t
Expire(db, key, ttl, t) ==
    IF db[key].live THEN [db EXCEPT ![key].exp = t + ttl] ELSE db

\* redis_client.set(key, val)
Set(db, key, val) == [db EXCEPT ![key] = [live |-> TRUE, v |-> val, exp |-> NoTTL]]

\* redis_client.decr(key)
Decr(db, key) ==
    [db EXCEPT ![key] = IF @.live THEN [@ EXCEPT !.v = @ - 1]
                        ELSE [live |-> TRUE, v |-> -1, exp |-> NoTTL]]

\* redis_client.exists(key)
Exists(db, key) == db[key].live

\* the store at time t: keys whose time to live has run out are gone
Expired(db, t) ==
    [k \in DOMAIN db |-> IF db[k].live /\ db[k].exp # NoTTL /\ db[k].exp <= t
                         THEN Absent ELSE db[k]]

\* a free request slot
\* (refused: limit_connections refused the request for exceeding the ceiling)
\* (read: the value a thread has loaded from a counter and not yet stored back)
Free == [ip |-> "none", pc |-> "free", status |-> 0, counted |-> FALSE, started |-> FALSE,
         refused |-> FALSE, read |-> 0]

NoCall == [ep |-> "none", ip |-> "none", status |-> 0, k |-> 0, pre |-> FALSE,
           bl |-> FALSE, due |-> FALSE, signal |-> FALSE]

\* the state of the module after import, the anomaly detection set with enabled
AdmStart(enabled) ==
    /\ REDIS_AVAILABLE \in BOOLEAN
    /\ RATE_LIMIT \in 1..MaxRateLimit
    /\ storeErrors = 0
    /\ now = 0
    /\ IP_REQUEST_COUNTS = [ip \in IPs |-> 0]
    /\ LAST_CLEANUP = 0
    /\ BLACKLISTED_IPS = {}
    /\ redis = [k \in Keys |-> Absent]
    /\ ANOMALY_DETECTION_ENABLED \in enabled
    /\ ANOMALY_TRACKING = [ip \in IPs |-> <<>>]
    /\ anomaly = [ip \in IPs |-> <<>>]
    /\ IP_CONNECTIONS = [ip \in IPs |-> 0]
    /\ connections = [ip \in IPs |-> 0]
    /\ reqs = [r \in Slots |-> Free]
    /\ arrivals = 0
    /\ seen = [ip \in IPs |-> 0]
    /\ clean = [ip \in IPs |-> TRUE]
    /\ sent = [ip \in IPs |-> <<>>]
    /\ admitted = [ip \in IPs |-> <<>>]
    /\ owed = [ip \in IPs |-> 0]
    /\ rejections = [ip \in IPs |-> 0]
    /\ last = NoCall

AdmInit == AdmStart({TRUE})

\* a whitelist that holds no address
WhitelistIgnored(ip) == ip \in {}

\* a whitelist that gives way to the blacklist
WhitelistedUnlessBlacklisted(ip) == ip \in WHITELISTED_IPS /\ ip \notin BLACKLISTED_IPS

\* client_ip in DDoSConfig.WHITELISTED_IPS, the first check of every entry point
Whitelisted(ip) == ip \in WHITELISTED_IPS

\* a ceiling that already rejects the request that reaches it
AtLimit(count, limit) == count >= limit

\* count > DDoSConfig.RATE_LIMIT
OverLimit(count, limit) == count > limit

\* violations >= DDoSConfig.BLACKLIST_THRESHOLD
ReachesThreshold(violations) == violations >= BLACKLIST_THRESHOLD

\* a sweep that runs whenever the clock has moved since the last one
SweepDueEveryTick(t, last_cleanup) == t - last_cleanup > 0

\* a sweep that already runs when exactly the interval has passed
SweepDueAtInterval(t, last_cleanup) == t - last_cleanup >= CLEANUP_INTERVAL

\* cleanup_expired_data: whether the sweep runs at time t
SweepDue(t, last_cleanup) == t - last_cleanup > CLEANUP_INTERVAL

\* the check rate_limit makes before counting
BlockedByRateLimit(ip, blacklist) == ip \in blacklist

\* the remote branch of rate_limit. failAt names the store call that raises
\* (0: none; 1 incr, 2 expire of the counter; 3 incr, 4 expire of the
\* violations; 5 set, 6 expire of the blacklist flag). The result: the store
\* afterwards, whether the except branch ran, whether abort(429) was raised
RemoteRate(db, ip, limit, t, failAt) ==
    LET db1 == Incr(db, RateKey(ip))
        db2 == Expire(db1, RateKey(ip), RATE_LIMIT_WINDOW, t)
        current_count == db1[RateKey(ip)].v
        db3 == Incr(db2, ViolationKey(ip))
        db4 == Expire(db3, ViolationKey(ip), BLACKLIST_DURATION, t)
        violations == db3[ViolationKey(ip)].v
        db5 == Set(db4, BlacklistKey(ip), 1)
        db6 == Expire(db5, BlacklistKey(ip), BLACKLIST_DURATION, t)
        Failed(d) == [db |-> d, except |-> TRUE, abort |-> FALSE]
    IN  IF failAt = 1 THEN Failed(db)
        ELSE IF failAt = 2 THEN Failed(db1)
        ELSE IF ~ OverLimit(current_count, limit)
             THEN [db |-> db2, except |-> FALSE, abort |-> FALSE]
        ELSE IF failAt = 3 THEN Failed(db2)
        ELSE IF failAt = 4 THEN Failed(db3)
        ELSE IF ~ ReachesThreshold(violations)
             THEN [db |-> db4, except |-> FALSE, abort |-> TRUE]
        ELSE IF failAt = 5 THEN Failed(db4)
        ELSE IF failAt = 6 THEN Failed(db5)
        ELSE [db |-> db6, except |-> FALSE, abort |-> TRUE]

\* the in-memory branch of rate_limit: counters after cleanup_expired_data
\* and the increment
SweptCounts(counts, t, last_cleanup) ==
    IF SweepDue(t, last_cleanup) THEN [ip \in IPs |-> 0] ELSE counts

\* ANOMALY_TRACKING[client_ip] after the while loop that pops its head
RECURSIVE PopOld(_, _)
PopOld(stamps, t) ==
    IF stamps # <<>> /\ Head(stamps) < t - ANOMALY_WINDOW
    THEN PopOld(Tail(stamps), t) ELSE stamps

\* zremrangebyscore(key, 0, t - ANOMALY_WINDOW)
RemRangeByScore(scores, t) ==
    SelectSeq(scores, LAMBDA x : ~ (0 <= x /\ x <= t - ANOMALY_WINDOW))

\* track_request_for_anomaly. failAt names the store call that raises
\* (7 zadd, 8 zremrangebyscore, 9 zcard)
TrackRequestForAnomaly(ip, failAt) ==
    IF REDIS_AVAILABLE
    THEN /\ anomaly' = IF failAt = 7 THEN anomaly
                       ELSE IF failAt = 8 THEN [anomaly EXCEPT ![ip] = Append(@, now)]
                       ELSE [anomaly EXCEPT ![ip] = RemRangeByScore(Append(@, now), now)]
         /\ ANOMALY_TRACKING' = IF failAt \in 7..9
                                THEN [ANOMALY_TRACKING EXCEPT ![ip] = Append(@, now)]
                                ELSE ANOMALY_TRACKING
    ELSE /\ ANOMALY_TRACKING' = [ANOMALY_TRACKING EXCEPT ![ip] = PopOld(Append(@, now), now)]
         /\ UNCHANGED anomaly

\* count > RATE_LIMIT * ANOMALY_WINDOW / RATE_LIMIT_WINDOW * ANOMALY_THRESHOLD
ExceedsBaseline(count) ==
    count * RATE_LIMIT_WINDOW * 100 > RATE_LIMIT * ANOMALY_WINDOW * ANOMALY_THRESHOLD

\* whether track_request_for_anomaly logs 'Anomaly detected': the check is made
\* on the count of the sorted set or of the in-memory list, and not at all
\* in the except branch
Anomalous(ip, failAt) ==
    IF REDIS_AVAILABLE
    THEN /\ failAt \notin 7..9
         /\ ExceedsBaseline(Len(RemRangeByScore(Append(anomaly[ip], now), now)))
    ELSE ExceedsBaseline(Len(PopOld(Append(ANOMALY_TRACKING[ip], now), now)))

\* the anomaly signal of one call of rate_limit
AnomalySignal(ip, failAt, reached) ==
    reached /\ ANOMALY_DETECTION_ENABLED /\ Anomalous(ip, failAt)

\* a detector that has the request rejected on a signal
RejectOnSignal(signal, status) == IF signal /\ status = 200 THEN 429 ELSE status

\* what rate_limit does once the tracking has returned: the signal is a line
\* of the log, and the wrapped handler is called
AfterTracking(signal, status) == status

\* lines 205-207 of rate_limit, reached when no abort was raised
TrackIfEnabled(ip, failAt, reached) ==
    IF reached /\ ANOMALY_DETECTION_ENABLED
    THEN TrackRequestForAnomaly(ip, failAt)
    ELSE UNCHANGED <<ANOMALY_TRACKING, anomaly>>

\* the effect of one call of a handler wrapped by rate_limit on the state of
\* the module, and its status: 200 when the wrapped handler ran
RateLimit(ip, failAt, status) ==
    IF Whitelisted(ip)
    THEN /\ status = 200
         /\ UNCHANGED <<IP_REQUEST_COUNTS, LAST_CLEANUP, redis, ANOMALY_TRACKING, anomaly>>
    ELSE IF BlockedByRateLimit(ip, BLACKLISTED_IPS)
    THEN /\ status = 403
         /\ UNCHANGED <<IP_REQUEST_COUNTS, LAST_CLEANUP, redis, ANOMALY_TRACKING, anomaly>>
    ELSE IF REDIS_AVAILABLE
    THEN LET r == RemoteRate(redis, ip, RATE_LIMIT, now, failAt) IN
         /\ redis' = r.db
         /\ IP_REQUEST_COUNTS' = IF r.except
                                 THEN [IP_REQUEST_COUNTS EXCEPT ![ip] = @ + 1]
                                 ELSE IP_REQUEST_COUNTS
         /\ status = AfterTracking(AnomalySignal(ip, failAt, ~ r.abort),
                                    IF r.abort THEN 429 ELSE 200)
         /\ TrackIfEnabled(ip, failAt, ~ r.abort)
         /\ UNCHANGED LAST_CLEANUP
    ELSE LET counts == [SweptCounts(IP_REQUEST_COUNTS, now, LAST_CLEANUP)
                            EXCEPT ![ip] = @ + 1] IN
         /\ IP_REQUEST_COUNTS' = counts
         /\ LAST_CLEANUP' = IF SweepDue(now, LAST_CLEANUP) THEN now ELSE LAST_CLEANUP
         /\ status = AfterTracking(AnomalySignal(ip, failAt, ~ OverLimit(counts[ip], RATE_LIMIT)),
                                    IF OverLimit(counts[ip], RATE_LIMIT) THEN 429 ELSE 200)
         /\ TrackIfEnabled(ip, failAt, ~ OverLimit(counts[ip], RATE_LIMIT))
         /\ UNCHANGED redis

\* a blacklist lookup that treats an error of the store as a listing
IsBlacklistedFailClosed(ip, fail) ==
    \/ ip \in BLACKLISTED_IPS
    \/ REDIS_AVAILABLE /\ (fail \/ Exists(redis, BlacklistKey(ip)))

\* is_blacklisted; fail: the exists call of the store raises
IsBlacklisted(ip, fail) ==
    \/ ip \in BLACKLISTED_IPS
    \/ REDIS_AVAILABLE /\ ~ fail /\ Exists(redis, BlacklistKey(ip))

\* whether a request through rate_limit makes the store call failAt, which raises
RateRaises(ip, failAt) ==
    /\ REDIS_AVAILABLE /\ ~ Whitelisted(ip) /\ ~ BlockedByRateLimit(ip, BLACKLISTED_IPS)
    /\ LET r == RemoteRate(redis, ip, RATE_LIMIT, now, failAt)
       IN  IF failAt \in 1..6 THEN r.except
           ELSE failAt \in 7..9 /\ ~ r.abort /\ ANOMALY_DETECTION_ENABLED

\* the bookkeeping of the claims: a rejection for excess traffic counts as a
\* violation, and BLACKLIST_THRESHOLD of them call for a blacklisting
Violations(ip, status) ==
    LET rej == IF status = 429 THEN rejections[ip] + 1 ELSE rejections[ip]
    IN  /\ rejections' = [rejections EXCEPT ![ip] = IF rej >= BLACKLIST_THRESHOLD THEN 0 ELSE rej]
        /\ owed' = [owed EXCEPT ![ip] = IF rej >= BLACKLIST_THRESHOLD
                                        THEN now + BLACKLIST_DURATION ELSE @]

\* the bookkeeping of the claims for a call of an entry point other than
\* rate_limit; status 200: the request was passed on
Observed(ep, ip, status) ==
    /\ Violations(ip, status)
    /\ last' = [ep |-> ep, ip |-> ip, status |-> status, k |-> 0, pre |-> FALSE,
                bl |-> IsBlacklisted(ip, FALSE), due |-> now < owed[ip],
                signal |-> FALSE]

\* whether this call opens a new window of the rate counter of the source
WindowOpens(ip) ==
    IF REDIS_AVAILABLE THEN ~ Exists(redis, RateKey(ip))
    ELSE SweepDue(now, LAST_CLEANUP)

\* the mark of a source that has sent more than the ceiling within one window length
Overpaced == <<-1>>

\* the times of the counted requests of a source within the last
\* RATE_LIMIT_WINDOW, the one made now included
SentAfter(ip) ==
    IF sent[ip] = Overpaced THEN Overpaced
    ELSE LET recent == Append(SelectSeq(sent[ip], LAMBDA x : x > now - RATE_LIMIT_WINDOW), now)
         IN  IF Len(recent) > RATE_LIMIT THEN Overpaced ELSE recent

\* the times at which the in-memory branch of rate_limit admitted a request
\* of the source within the last RATE_LIMIT_WINDOW, the one admitted now included
AdmittedAfter(ip) ==
    Append(SelectSeq(admitted[ip], LAMBDA x : x >= now - RATE_LIMIT_WINDOW), now)

\* the bookkeeping of the claims for a call of rate_limit by ip
RateLimitObserved(ip, failAt, status) ==
    LET counted == ~ Whitelisted(ip) /\ ~ BlockedByRateLimit(ip, BLACKLISTED_IPS)
        swept == counted /\ ~ REDIS_AVAILABLE /\ SweepDue(now, LAST_CLEANUP)
        base == IF swept THEN [i \in IPs |-> 0] ELSE seen
        k == IF counted THEN (IF WindowOpens(ip) THEN 0 ELSE base[ip]) + 1 ELSE seen[ip]
        ok == (IF WindowOpens(ip) THEN TRUE ELSE clean[ip])
              /\ ~ (REDIS_AVAILABLE /\ IP_REQUEST_COUNTS' # IP_REQUEST_COUNTS)
    IN  /\ seen' = IF counted THEN [base EXCEPT ![ip] = k] ELSE seen
        /\ clean' = IF counted THEN [clean EXCEPT ![ip] = ok] ELSE clean
        /\ sent' = IF counted THEN [sent EXCEPT ![ip] = SentAfter(ip)] ELSE sent
        /\ admitted' = IF counted /\ ~ REDIS_AVAILABLE /\ status = 200
                       THEN [admitted EXCEPT ![ip] = AdmittedAfter(ip)] ELSE admitted
        /\ Violations(ip, status)
        /\ last' = [ep |-> "rate_limit", ip |-> ip, status |-> status, k |-> k,
                    pre |-> counted /\ ok /\ ~ IsBlacklisted(ip, FALSE),
                    bl |-> IsBlacklisted(ip, FALSE),
                    due |-> now < owed[ip],
                    signal |-> AnomalySignal(ip, failAt, counted /\ status = 200)]

\* the store raises in this call when failAt names one of the calls made;
\* cap bounds the number of errors of a behaviour
RaisedWithin(failAt, made, cap) ==
    /\ failAt # 0 => made /\ storeErrors < cap
    /\ storeErrors' = IF failAt # 0 THEN storeErrors + 1 ELSE storeErrors

Raised(failAt, made) == RaisedWithin(failAt, made, MaxStoreErrors)

\* a request to a route wrapped by rate_limit alone
RateLimitedRequestWithin(ip, failAt, cap) ==
    /\ IP_REQUEST_COUNTS[ip] < MaxBurst
    /\ redis[RateKey(ip)].v < MaxBurst
    /\ \E status \in {200, 403, 429} :
          /\ RateLimit(ip, failAt, status)
          /\ RateLimitObserved(ip, failAt, status)
    /\ RaisedWithin(failAt, RateRaises(ip, failAt), cap)
    /\ UNCHANGED <<configVars, now, BLACKLISTED_IPS>>

RateLimitedRequest(ip, failAt) == RateLimitedRequestWithin(ip, failAt, MaxStoreErrors)

\* an address is put on the in-memory blacklist by the operator
BlacklistAdd(ip) ==
    /\ ip \notin BLACKLISTED_IPS
    /\ BLACKLISTED_IPS' = BLACKLISTED_IPS \cup {ip}
    /\ UNCHANGED <<configVars, now, rateVars, redis, storeErrors, windowVars,
                   owed, rejections, last>>

\* time passes
Tick ==
    /\ now < MaxTime
    /\ now' = now + 1
    /\ redis' = Expired(redis, now + 1)
    /\ UNCHANGED <<configVars, rateVars, BLACKLISTED_IPS, storeErrors, windowVars,
                   owed, rejections, last>>

\* the store calls of a request through rate_limit that raise: none, one of
\* the calls of rate_limit itself, or the first call of the anomaly tracking
RateFailures ==
    IF ~ REDIS_AVAILABLE THEN {0}
    ELSE IF ANOMALY_DETECTION_ENABLED THEN 0..7 ELSE 0..6

(***************************************************************************)
(* The application protected by protect_flask_app: a request passes the    *)
(* WSGI middleware, the before_request functions limit_connections and     *)
(* global_protection, a view wrapped by rate_limit and geo_filter, the     *)
(* after_request functions, start_response and the teardown function.      *)
(***************************************************************************)

Max(a, b) == IF a >= b THEN a ELSE b

\* a ceiling that is not tightened for slow clients
ConnectionCeilingUntightened(slow) == MAX_CONNECTIONS_PER_IP

\* max_connections of limit_connections
ConnectionCeiling(slow) ==
    IF slow THEN Max(1, MAX_CONNECTIONS_PER_IP \div 4) ELSE MAX_CONNECTIONS_PER_IP

\* the position of a request after an entry point answered status
After(req, status, next) ==
    IF status = 200 THEN [req EXCEPT !.pc = next]
    ELSE [req EXCEPT !.pc = "after_request", !.status = status]

\* a request arrives and takes the first free slot
Start(ip) ==
    /\ arrivals < MaxArrivals
    /\ \E r \in Slots :
          /\ reqs[r] = Free
          /\ \A q \in Slots : q < r => reqs[q] # Free
          /\ reqs' = [reqs EXCEPT ![r] = [Free EXCEPT !.ip = ip, !.pc = "wsgi"]]
    /\ arrivals' = arrivals + 1
    /\ UNCHANGED <<configVars, now, rateVars, BLACKLISTED_IPS, redis, storeErrors,
                   IP_CONNECTIONS, connections, windowVars, owed, rejections, last>>

\* SlowlorisProtectionMiddleware.__call__ up to the call of the application.
\* The two rejections return a body and never call start_response (status 0)
Middleware(r, fail) ==
    LET ip == reqs[r].ip
        status == IF Whitelisted(ip) THEN 200
                  ELSE IF IsBlacklisted(ip, fail) THEN 0
                  ELSE IF connections[ip] + 1 > MAX_CONNECTIONS_PER_IP THEN 0
                  ELSE 200
    IN  /\ reqs[r].pc = "wsgi"
        /\ Raised(IF fail THEN 1 ELSE 0,
                  REDIS_AVAILABLE /\ ~ Whitelisted(ip) /\ ip \notin BLACKLISTED_IPS)
        /\ connections' = IF status = 200 /\ ~ Whitelisted(ip)
                          THEN [connections EXCEPT ![ip] = @ + 1] ELSE connections
        /\ reqs' = [reqs EXCEPT ![r] =
                       IF status = 200
                       THEN [@ EXCEPT !.pc = "limit_connections",
                                      !.counted = ~ Whitelisted(ip)]
                       ELSE Free]
        /\ Observed("middleware", ip, status)
        /\ UNCHANGED <<configVars, now, rateVars, BLACKLISTED_IPS, redis,
                       IP_CONNECTIONS, arrivals, windowVars>>

\* the remote branch of limit_connections. failAt names the store call that
\* raises (1 the pipeline, nothing done; 2 the pipeline, its commands done;
\* 3 incr, 4 expire of the violations; 5 set, 6 expire of the blacklist flag;
\* 7 decr). listed: BLACKLISTED_IPS.add was reached
RemoteConnect(db, ip, ceiling, t, failAt) ==
    LET db1 == Expire(Incr(db, ConnectionsKey(ip)), ConnectionsKey(ip), CONNECTION_TIMEOUT, t)
        current_connections == db1[ConnectionsKey(ip)].v
        db3 == Incr(db1, ViolationKey(ip))
        db4 == Expire(db3, ViolationKey(ip), BLACKLIST_DURATION, t)
        violations == db3[ViolationKey(ip)].v
        db5 == Set(db4, BlacklistKey(ip), 1)
        db6 == Expire(db5, BlacklistKey(ip), BLACKLIST_DURATION, t)
        listed == ReachesThreshold(violations)
        db7 == IF listed THEN db6 ELSE db4
        Failed(d, l) == [db |-> d, except |-> TRUE, abort |-> FALSE, listed |-> l]
    IN  IF failAt = 1 THEN Failed(db, FALSE)
        ELSE IF failAt = 2 THEN Failed(db1, FALSE)
        ELSE IF ~ OverLimit(current_connections, ceiling)
             THEN [db |-> db1, except |-> FALSE, abort |-> FALSE, listed |-> FALSE]
        ELSE IF failAt = 3 THEN Failed(db1, FALSE)
        ELSE IF failAt = 4 THEN Failed(db3, FALSE)
        ELSE IF listed /\ failAt = 5 THEN Failed(db4, FALSE)
        ELSE IF listed /\ failAt = 6 THEN Failed(db5, FALSE)
        ELSE IF failAt = 7 THEN Failed(db7, listed)
        ELSE [db |-> Decr(db7, ConnectionsKey(ip)), except |-> FALSE, abort |-> TRUE,
              listed |-> listed]

\* limit_connections
LimitConnectionsWithin(r, slow, failAt, cap) ==
    LET ip == reqs[r].ip
        ceiling == ConnectionCeiling(slow)
        blocked == ip \in BLACKLISTED_IPS
        res == RemoteConnect(redis, ip, ceiling, now, failAt)
        remote == REDIS_AVAILABLE /\ ~ Whitelisted(ip) /\ ~ blocked
        local == ~ REDIS_AVAILABLE /\ ~ Whitelisted(ip) /\ ~ blocked
        over == OverLimit(IP_CONNECTIONS[ip] + 1, ceiling)
        status == IF Whitelisted(ip) THEN 200
                  ELSE IF blocked THEN 403
                  ELSE IF remote THEN (IF res.abort THEN 429 ELSE 200)
                  ELSE IF over THEN 429 ELSE 200
    IN  /\ reqs[r].pc = "limit_connections"
        /\ RaisedWithin(failAt, remote /\ res.except, cap)
        /\ redis' = IF remote THEN res.db ELSE redis
        /\ BLACKLISTED_IPS' = IF remote /\ res.listed
                              THEN BLACKLISTED_IPS \cup {ip} ELSE BLACKLISTED_IPS
        /\ IP_CONNECTIONS' = IF (remote /\ res.except) \/ (local /\ ~ over)
                             THEN [IP_CONNECTIONS EXCEPT ![ip] = @ + 1]
                             ELSE IP_CONNECTIONS
        /\ reqs' = [reqs EXCEPT ![r] =
                       After([@ EXCEPT !.started = remote \/ local,
                                       !.refused = (status = 429)], status,
                             "global_protection")]
        /\ Observed("limit_connections", ip, status)
        /\ UNCHANGED <<configVars, now, rateVars, connections, arrivals, windowVars>>

LimitConnections(r, slow, failAt) == LimitConnectionsWithin(r, slow, failAt, MaxStoreErrors)

\* validate_request: False only when the user_agents module is installed
\* and the request has no User-Agent
ValidateRequest(parseInstalled, hasUserAgent) == ~ parseInstalled \/ hasUserAgent

\* global_protection
GlobalProtection(r, fail, valid) ==
    LET ip == reqs[r].ip
        status == IF Whitelisted(ip) THEN 200
                  ELSE IF IsBlacklisted(ip, fail) THEN 403
                  ELSE IF ~ valid THEN 400
                  ELSE 200
    IN  /\ reqs[r].pc = "global_protection"
        /\ Raised(IF fail THEN 1 ELSE 0,
                  REDIS_AVAILABLE /\ ~ Whitelisted(ip) /\ ip \notin BLACKLISTED_IPS)
        /\ reqs' = [reqs EXCEPT ![r] = After(@, status, "view")]
        /\ Observed("global_protection", ip, status)
        /\ UNCHANGED <<configVars, now, rateVars, BLACKLISTED_IPS, redis, IP_CONNECTIONS,
                       connections, arrivals, windowVars>>

\* ipaddress.ip_address(client_ip).is_private or .is_loopback
IsPrivate(ip) == ip = "127.0.0.1"

\* what geo_filter finds: the flag GEO_BLOCKING_ENABLED, the geoip2 module,
\* the database file, the lookup and the country against the two lists
GeoEnvs ==
    [enabled : BOOLEAN, geoip2 : {TRUE}, database : {TRUE}, found : BOOLEAN,
     allowList : {TRUE}, allowed : BOOLEAN, blocked : {FALSE}]
    \cup [enabled : {TRUE}, geoip2 : BOOLEAN, database : BOOLEAN, found : {TRUE},
          allowList : {FALSE}, allowed : {FALSE}, blocked : BOOLEAN]

\* the except clause of geo_filter catches Exception, and the exception
\* that abort raises is one
AbortIsCaught == TRUE

\* geo_filter: the status with which the wrapped handler is reached or not
GeoFilter(ip, e) ==
    IF ~ e.enabled \/ ~ e.geoip2 \/ Whitelisted(ip) \/ IsPrivate(ip) \/ ~ e.database
    THEN 200
    ELSE IF ~ e.found THEN 200
    ELSE IF ((e.allowList /\ ~ e.allowed) \/ e.blocked) /\ ~ AbortIsCaught THEN 403
    ELSE 200

\* the view: rate_limit, then geo_filter, then the handler
View(r, failAt, e) ==
    LET ip == reqs[r].ip IN
    /\ reqs[r].pc = "view"
    /\ Raised(failAt, RateRaises(ip, failAt))
    /\ \E status \in {200, 403, 429} :
          /\ RateLimit(ip, failAt, status)
          /\ RateLimitObserved(ip, failAt, status)
          /\ reqs' = [reqs EXCEPT ![r] =
                         [@ EXCEPT !.pc = "after_request",
                                   !.status = IF status = 200 THEN GeoFilter(ip, e)
                                              ELSE status]]
    /\ UNCHANGED <<configVars, now, BLACKLISTED_IPS, IP_CONNECTIONS, connections, arrivals>>

\* monitor_response_time. failAt: 1 incr, 2 expire, 3 get of the slow counter
MonitorResponseTime(r, slow, failAt) ==
    LET ip == reqs[r].ip
        counts == reqs[r].started /\ slow /\ ~ Whitelisted(ip) /\ REDIS_AVAILABLE
        db1 == Incr(redis, SlowKey(ip))
        db2 == Expire(db1, SlowKey(ip), BLACKLIST_DURATION, now)
    IN  /\ reqs[r].pc = "after_request"
        /\ Raised(failAt, counts)
        /\ redis' = IF ~ counts \/ failAt = 1 THEN redis
                    ELSE IF failAt = 2 THEN db1 ELSE db2
        /\ reqs' = [reqs EXCEPT ![r].pc = "start_response",
                                ![r].status = IF @ = 0 THEN 200 ELSE @]
        /\ UNCHANGED <<configVars, now, rateVars, BLACKLISTED_IPS, IP_CONNECTIONS,
                       connections, arrivals, windowVars, owed, rejections, last>>

\* custom_start_response, or the server's start_response for a request the
\* middleware passed through
StartResponse(r) ==
    LET ip == reqs[r].ip IN
    /\ reqs[r].pc = "start_response"
    /\ connections' = IF reqs[r].counted
                      THEN [connections EXCEPT ![ip] = Max(0, @ - 1)] ELSE connections
    /\ reqs' = [reqs EXCEPT ![r].pc = "teardown"]
    /\ UNCHANGED <<configVars, now, rateVars, BLACKLISTED_IPS, redis, storeErrors,
                   IP_CONNECTIONS, arrivals, windowVars, owed, rejections, last>>

\* the remote branch of teardown. failAt: 1 decr, 2 get, 3 set raises
RemoteRelease(db, ip, failAt) ==
    LET db1 == Decr(db, ConnectionsKey(ip))
        count == db1[ConnectionsKey(ip)].v
        Failed(d) == [db |-> d, except |-> TRUE]
    IN  IF failAt = 1 THEN Failed(db)
        ELSE IF failAt = 2 THEN Failed(db1)
        ELSE IF ~ (count < 0) THEN [db |-> db1, except |-> FALSE]
        ELSE IF failAt = 3 THEN Failed(db1)
        ELSE [db |-> Set(db1, ConnectionsKey(ip), 0), except |-> FALSE]

\* teardown
Teardown(r, failAt) ==
    LET ip == reqs[r].ip
        res == RemoteRelease(redis, ip, failAt)
        remote == REDIS_AVAILABLE /\ ~ Whitelisted(ip)
        local == ~ REDIS_AVAILABLE /\ ~ Whitelisted(ip)
    IN  /\ reqs[r].pc = "teardown"
        /\ Raised(failAt, remote /\ res.except)
        /\ redis' = IF remote THEN res.db ELSE redis
        /\ IP_CONNECTIONS' = IF (remote /\ res.except) \/ local
                             THEN [IP_CONNECTIONS EXCEPT ![ip] = Max(0, @ - 1)]
                             ELSE IP_CONNECTIONS
        /\ reqs' = [reqs EXCEPT ![r] = Free]
        /\ UNCHANGED <<configVars, now, rateVars, BLACKLISTED_IPS, connections, arrivals,
                       windowVars, owed, rejections, last>>

\* whether the store may raise in a call
Fails == IF REDIS_AVAILABLE THEN BOOLEAN ELSE {FALSE}
FailPoints(n) == IF REDIS_AVAILABLE THEN 0..n ELSE {0}

\* the sources of the requests: with the remote store every source has keys
\* of its own, in memory the sweep of the request counters is shared
SourceIPs == IF REDIS_AVAILABLE THEN AppIPs ELSE IPs

AdmNext ==
    \/ \E ip \in SourceIPs : Start(ip) /\ UNCHANGED proxyVars
    \/ \E r \in Slots, f \in Fails : Middleware(r, f) /\ UNCHANGED proxyVars
    \/ \E r \in Slots, slow \in BOOLEAN, f \in FailPoints(7) :
          LimitConnections(r, slow, f) /\ UNCHANGED proxyVars
    \/ \E r \in Slots, f \in Fails, parse \in BOOLEAN, ua \in BOOLEAN :
          GlobalProtection(r, f, ValidateRequest(parse, ua)) /\ UNCHANGED proxyVars
    \/ \E r \in Slots, f \in RateFailures, e \in GeoEnvs :
          View(r, f, e) /\ UNCHANGED proxyVars
    \/ \E r \in Slots, slow \in BOOLEAN, f \in FailPoints(3) :
          MonitorResponseTime(r, slow, f) /\ UNCHANGED proxyVars
    \/ \E r \in Slots : StartResponse(r) /\ UNCHANGED proxyVars
    \/ \E r \in Slots, f \in FailPoints(3) : Teardown(r, f) /\ UNCHANGED proxyVars
    \/ \E ip \in AppIPs : BlacklistAdd(ip) /\ UNCHANGED <<proxyVars, pipeVars>>

RateNext ==
    \/ \E ip \in SourceIPs, f \in RateFailures :
          RateLimitedRequest(ip, f) /\ UNCHANGED <<proxyVars, pipeVars>>
    \/ \E ip \in AppIPs \ WHITELISTED_IPS :
          BlacklistAdd(ip) /\ UNCHANGED <<proxyVars, pipeVars>>
    \/ Tick /\ UNCHANGED <<proxyVars, pipeVars>>

vars == <<proxyVars, admVars>>

ProxyNext ==
    \/ (\E ip \in RequestIPs, c \in RequestCookies : HandleRequest(ip, c))
          /\ UNCHANGED admVars
    \/ (\E st \in {200, 500} : ForwardOk(st)) /\ UNCHANGED admVars
    \/ (\E r \in BOOLEAN, st \in {200, 500} : ForwardFail(r, st)) /\ UNCHANGED admVars
    \/ (\E res \in ProbeResults : Probe(res)) /\ UNCHANGED admVars
    \/ Publish /\ UNCHANGED admVars

HealthNext ==
    \/ (\E res \in ProbeResults : ProbeCounted(res)) /\ UNCHANGED admVars
    \/ Publish /\ UNCHANGED admVars

\* the admission layer before its first request, in a fixed configuration
AdmQuiet ==
    /\ AdmInit
    /\ REDIS_AVAILABLE = FALSE
    /\ RATE_LIMIT = 1

\* the proxy before its first request, in a fixed configuration
ProxyQuiet == ProxyInit({[backend_nodes |-> <<NodeB, NodeA>>, algorithm |-> "round_robin",
                          sticky_sessions |-> FALSE]})

\* the proxy over two backend nodes
InitProxy == ProxyInit(ConfigsTwo) /\ AdmQuiet
SpecProxy == InitProxy /\ [][ProxyNext]_vars
\* the proxy over three backend nodes, round robin
\* the proxy over an https node and an http node
InitSticky == ProxyInit(ConfigsSticky) /\ AdmQuiet
SpecSticky == InitSticky /\ [][ProxyNext]_vars

\* the status endpoint and the health monitor
StatusNext ==
    \/ SendProxyStatus /\ UNCHANGED admVars
    \/ (\E raised \in BOOLEAN : DumpStatus(raised)) /\ UNCHANGED admVars
    \/ (\E res \in ProbeResults : Probe(res)) /\ UNCHANGED admVars
    \/ Publish /\ UNCHANGED admVars

InitStatus == ProxyInit(ConfigsTwo) /\ AdmQuiet
SpecStatus == InitStatus /\ [][StatusNext]_vars

\* the health monitor under fair scheduling: the thread is not starved, every
\* probe returns within health_check_timeout and every sleep ends
InitFairHealth == ProxyInit(ConfigsTwo) /\ AdmQuiet
FairHealth ==
    /\ InitFairHealth
    /\ [][HealthNext]_vars
    /\ WF_vars((\E res \in ProbeResults : ProbeCounted(res)) /\ UNCHANGED admVars)
    /\ WF_vars(Publish /\ UNCHANGED admVars)

InitRR == ProxyInit(ConfigsRR) /\ AdmQuiet
SpecRR == InitRR /\ [][ProxyNext]_vars
\* the health monitor alone, with the probes of each node counted
InitHealth == ProxyInit(ConfigsTwo \cup ConfigsRR) /\ AdmQuiet
SpecHealth == InitHealth /\ [][HealthNext]_vars
\* routes wrapped by rate_limit alone, the proxy not running
InitRate == AdmInit /\ ProxyQuiet
SpecRate == InitRate /\ [][RateNext]_vars
\* the protected application with the ceiling of one request per window
InitAdm == AdmInit /\ RATE_LIMIT = 1 /\ ProxyQuiet
SpecAdm == InitAdm /\ [][AdmNext]_vars
\* the protected application without the remote store, as time passes
\* an outage of the remote store, shorter than one window: the first store
\* call of every rate check and of every connection acquisition may raise,
\* request after request
OutageNext ==
    \/ \E ip \in AppIPs, f \in {0, 1} :
          RateLimitedRequestWithin(ip, f, MaxOutageErrors) /\ UNCHANGED <<proxyVars, pipeVars>>
    \/ \E ip \in AppIPs : Start(ip) /\ UNCHANGED proxyVars
    \/ \E r \in Slots : Middleware(r, FALSE) /\ UNCHANGED proxyVars
    \/ \E r \in Slots, slow \in BOOLEAN, f \in {0, 1} :
          LimitConnectionsWithin(r, slow, f, MaxOutageErrors) /\ UNCHANGED proxyVars

InitOutage == InitRate /\ REDIS_AVAILABLE
SpecOutage == InitOutage /\ [][OutageNext]_vars

InitSweep == InitAdm /\ ~ REDIS_AVAILABLE
SweepNext ==
    \/ AdmNext
    \/ Tick /\ UNCHANGED <<proxyVars, pipeVars>>
SpecSweep == InitSweep /\ [][SweepNext]_vars

(***************************************************************************)
(* The in-memory branches of limit_connections, rate_limit and teardown    *)
(* as the threads of a threaded server execute them: the statements that   *)
(* update a counter load it and store it in two steps. threading.Lock()    *)
(* in `with threading.Lock():` makes a new lock for every execution, which *)
(* no other thread ever holds, and rate_limit takes no lock, so the steps  *)
(* of different requests interleave freely.                                *)
(***************************************************************************)

raceFrame == <<configVars, now, BLACKLISTED_IPS, redis, storeErrors, connections,
               windowVars, owed, rejections, last>>

\* a request arrives at a route wrapped by rate_limit of an application with
\* connection_limiter
RaceStart(ip) ==
    /\ arrivals < MaxArrivals
    /\ \E r \in Slots :
          /\ reqs[r] = Free
          /\ \A q \in Slots : q < r => reqs[q] # Free
          /\ reqs' = [reqs EXCEPT ![r] = [Free EXCEPT !.ip = ip, !.pc = "lc_read"]]
    /\ arrivals' = arrivals + 1
    /\ UNCHANGED <<raceFrame, rateVars, IP_CONNECTIONS>>

\* limit_connections up to IP_CONNECTIONS.get(client_ip, 0)
ConnRead(r) ==
    LET ip == reqs[r].ip IN
    /\ reqs[r].pc = "lc_read"
    /\ reqs' = [reqs EXCEPT ![r] =
                   IF ip \in BLACKLISTED_IPS
                   THEN [@ EXCEPT !.pc = "td_read", !.status = 403]
                   ELSE [@ EXCEPT !.pc = "lc_write", !.read = IP_CONNECTIONS[ip]]]
    /\ UNCHANGED <<raceFrame, rateVars, IP_CONNECTIONS, arrivals>>

\* IP_CONNECTIONS[client_ip] = ... + 1
ConnWrite(r) ==
    /\ reqs[r].pc = "lc_write"
    /\ IP_CONNECTIONS' = [IP_CONNECTIONS EXCEPT ![reqs[r].ip] = reqs[r].read + 1]
    /\ reqs' = [reqs EXCEPT ![r].pc = "lc_check"]
    /\ UNCHANGED <<raceFrame, rateVars, arrivals>>

\* the comparison with max_connections and, when it is exceeded, the load of
\* IP_CONNECTIONS[client_ip] -= 1
ConnCheck(r, slow) ==
    LET ip == reqs[r].ip IN
    /\ reqs[r].pc = "lc_check"
    /\ reqs' = [reqs EXCEPT ![r] =
                   IF OverLimit(IP_CONNECTIONS[ip], ConnectionCeiling(slow))
                   THEN [@ EXCEPT !.pc = "lc_undo", !.read = IP_CONNECTIONS[ip],
                                  !.refused = TRUE]
                   ELSE [@ EXCEPT !.pc = "rl_read"]]
    /\ UNCHANGED <<raceFrame, rateVars, IP_CONNECTIONS, arrivals>>

\* the store of IP_CONNECTIONS[client_ip] -= 1, and abort(429)
ConnUndo(r) ==
    /\ reqs[r].pc = "lc_undo"
    /\ IP_CONNECTIONS' = [IP_CONNECTIONS EXCEPT ![reqs[r].ip] = reqs[r].read - 1]
    /\ reqs' = [reqs EXCEPT ![r].pc = "td_read", ![r].status = 429]
    /\ UNCHANGED <<raceFrame, rateVars, arrivals>>

\* rate_limit: cleanup_expired_data and the load of IP_REQUEST_COUNTS[client_ip] += 1
RateRead(r) ==
    LET ip == reqs[r].ip
        counts == SweptCounts(IP_REQUEST_COUNTS, now, LAST_CLEANUP)
    IN  /\ reqs[r].pc = "rl_read"
        /\ IF BlockedByRateLimit(ip, BLACKLISTED_IPS)
           THEN /\ reqs' = [reqs EXCEPT ![r].pc = "td_read", ![r].status = 403]
                /\ UNCHANGED <<IP_REQUEST_COUNTS, LAST_CLEANUP>>
           ELSE /\ IP_REQUEST_COUNTS' = counts
                /\ LAST_CLEANUP' = IF SweepDue(now, LAST_CLEANUP) THEN now ELSE LAST_CLEANUP
                /\ reqs' = [reqs EXCEPT ![r].pc = "rl_write", ![r].read = counts[ip]]
        /\ UNCHANGED <<raceFrame, ANOMALY_TRACKING, anomaly, IP_CONNECTIONS, arrivals>>

\* the store of IP_REQUEST_COUNTS[client_ip] += 1
RateWrite(r) ==
    /\ reqs[r].pc = "rl_write"
    /\ IP_REQUEST_COUNTS' = [IP_REQUEST_COUNTS EXCEPT ![reqs[r].ip] = reqs[r].read + 1]
    /\ reqs' = [reqs EXCEPT ![r].pc = "rl_check"]
    /\ UNCHANGED <<raceFrame, LAST_CLEANUP, ANOMALY_TRACKING, anomaly, IP_CONNECTIONS,
                   arrivals>>

\* the comparison with RATE_LIMIT; the handler is entered or abort(429) raised
RateCheck(r) ==
    LET ip == reqs[r].ip
        over == OverLimit(IP_REQUEST_COUNTS[ip], RATE_LIMIT)
    IN  /\ reqs[r].pc = "rl_check"
        /\ reqs' = [reqs EXCEPT ![r] =
                       IF over THEN [@ EXCEPT !.pc = "td_read", !.status = 429]
                       ELSE [@ EXCEPT !.pc = "handler", !.status = 200]]
        /\ TrackIfEnabled(ip, 0, ~ over)
        /\ UNCHANGED <<raceFrame, IP_REQUEST_COUNTS, LAST_CLEANUP, IP_CONNECTIONS, arrivals>>

\* the wrapped handler returns
HandlerReturns(r) ==
    /\ reqs[r].pc = "handler"
    /\ reqs' = [reqs EXCEPT ![r].pc = "td_read"]
    /\ UNCHANGED <<raceFrame, rateVars, IP_CONNECTIONS, arrivals>>

\* teardown: the load of IP_CONNECTIONS[client_ip] - 1
ReleaseRead(r) ==
    /\ reqs[r].pc = "td_read"
    /\ reqs' = [reqs EXCEPT ![r].pc = "td_write", ![r].read = IP_CONNECTIONS[reqs[r].ip]]
    /\ UNCHANGED <<raceFrame, rateVars, IP_CONNECTIONS, arrivals>>

\* teardown: the store of max(0, ...)
ReleaseWrite(r) ==
    /\ reqs[r].pc = "td_write"
    /\ IP_CONNECTIONS' = [IP_CONNECTIONS EXCEPT ![reqs[r].ip] = Max(0, reqs[r].read - 1)]
    /\ reqs' = [reqs EXCEPT ![r] = Free]
    /\ UNCHANGED <<raceFrame, rateVars, arrivals>>

RaceNext ==
    \/ \E ip \in AppIPs \ WHITELISTED_IPS : RaceStart(ip) /\ UNCHANGED proxyVars
    \/ \E r \in Slots : ConnRead(r) /\ UNCHANGED proxyVars
    \/ \E r \in Slots : ConnWrite(r) /\ UNCHANGED proxyVars
    \/ \E r \in Slots, slow \in BOOLEAN : ConnCheck(r, slow) /\ UNCHANGED proxyVars
    \/ \E r \in Slots : ConnUndo(r) /\ UNCHANGED proxyVars
    \/ \E r \in Slots : RateRead(r) /\ UNCHANGED proxyVars
    \/ \E r \in Slots : RateWrite(r) /\ UNCHANGED proxyVars
    \/ \E r \in Slots : RateCheck(r) /\ UNCHANGED proxyVars
    \/ \E r \in Slots : HandlerReturns(r) /\ UNCHANGED proxyVars
    \/ \E r \in Slots : ReleaseRead(r) /\ UNCHANGED proxyVars
    \/ \E r \in Slots : ReleaseWrite(r) /\ UNCHANGED proxyVars

\* the threads of the application without the remote store
InitRace == InitAdm /\ ~ REDIS_AVAILABLE
SpecRace == InitRace /\ [][RaceNext]_vars

(***************************************************************************)
(* Claims about the reverse proxy.                                         *)
(***************************************************************************)

\* a step in which handle_request ran
RequestStep ==
    /\ phase = "serving" /\ h.pc = "idle"
    /\ \E ip \in RequestIPs, c \in RequestCookies : HandleRequest(ip, c)

\* C1: for a source that is neither whitelisted nor blacklisted, in the
\* in-memory mode and in the remote-store mode and for every ceiling, the
\* k-th request of one rate window passing through rate_limit is accepted
\* when k <= RATE_LIMIT and rejected with 429 when k > RATE_LIMIT (the
\* window being one in which the store raised no error).
C1_RateCeiling ==
    (last.ep = "rate_limit" /\ last.pre)
    => last.status = IF last.k <= RATE_LIMIT THEN 200 ELSE 429

C1_Witness ==
    /\ last.ep = "rate_limit" /\ last.pre
    /\ RATE_LIMIT = 2 /\ last.k = 3 /\ last.status = 429
    /\ REDIS_AVAILABLE

\* C2: once a non-whitelisted source has been rejected BLACKLIST_THRESHOLD
\* times for exceeding the rate, each of its later requests is rejected
\* with 403 until BLACKLIST_DURATION has passed, in both modes.
C2_BlacklistedAfterThreshold ==
    (last.ep = "rate_limit" /\ last.ip \notin WHITELISTED_IPS /\ last.due)
    => last.status = 403

\* C3: a request of a non-whitelisted source that is blacklisted, in the
\* in-memory set or by the flag of the remote store, is rejected with 403
\* by the entry point it passes through and its handler does not run.
C3_BlacklistedRejected ==
    (last.ep # "none" /\ last.ip \notin WHITELISTED_IPS /\ last.bl)
    => last.status = 403

\* a step taken by a request of a whitelisted source
WhitelistedStep ==
    \E r \in Slots :
       /\ reqs'[r] # reqs[r]
       /\ (IF reqs[r] = Free THEN reqs'[r].ip ELSE reqs[r].ip) \in WHITELISTED_IPS

\* C4: a request of a whitelisted source is passed on by every entry point
\* (the middleware, limit_connections, global_protection, rate_limit and
\* geo_filter), whatever the number of its requests and connections and
\* even when its address is on the blacklist, and no step of such a request
\* changes a request counter, a connection counter or a violation counter.
C4_WhitelistBypass ==
    /\ [](/\ last.ip \in WHITELISTED_IPS => last.status = 200
          /\ \A r \in Slots :
                reqs[r].ip \in WHITELISTED_IPS => reqs[r].status \in {0, 200})
    /\ [][ WhitelistedStep
           => UNCHANGED <<IP_REQUEST_COUNTS, LAST_CLEANUP, IP_CONNECTIONS, connections,
                          redis, ANOMALY_TRACKING, anomaly, BLACKLISTED_IPS>> ]_vars

C4_Witness ==
    /\ "127.0.0.1" \in BLACKLISTED_IPS
    /\ arrivals = 3
    /\ \A r \in Slots : /\ reqs[r].ip = "127.0.0.1"
                        /\ reqs[r].pc = "teardown"
                        /\ reqs[r].status = 200

\* C5: whenever the healthy-node list is empty at the time of selection, the
\* request is answered with 503 and nothing else happens: no node is chosen,
\* no upstream connection is opened (the handler does not start forwarding),
\* and the cursor and every node's statistics keep their values; for every
\* algorithm, with or without a sticky token.
C5_EmptyListGives503 ==
    [][ (active_nodes = <<>> /\ RequestStep)
        => /\ out' = <<503>>
           /\ h' = Idle
           /\ UNCHANGED <<node_stats, node_index, active_nodes>> ]_vars

\* a 503 was answered on an empty list while nodes hold statistics of earlier requests
C5_Witness ==
    /\ phase = "serving"
    /\ active_nodes = <<>>
    /\ out = <<503>>
    /\ \E n \in Nodes : HasStats(node_stats, n) /\ node_stats[n].requests > 0

Pos(x, s) == CHOOSE i \in 1..Len(s) : s[i] = x
Count(x, s) == Cardinality({i \in 1..Len(s) : s[i] = x})

\* the cursor selections made since the healthy list last changed follow the
\* list cyclically, and any k*n consecutive ones hold every node k times
RRLogCyclic ==
    LET n == Len(active_nodes) IN
    /\ \A i \in 1..Len(rrLog) : InList(rrLog[i], active_nodes)
    /\ \A i \in 1..(Len(rrLog) - 1) :
          Pos(rrLog[i + 1], active_nodes) = (Pos(rrLog[i], active_nodes) % n) + 1
    /\ \A i \in 0..Len(rrLog), k \in 1..Len(rrLog) :
          i + k * n <= Len(rrLog)
          => \A x \in Range(active_nodes) :
                Count(x, SubSeq(rrLog, i + 1, i + k * n)) = k

\* the cursor never decreases and moves by one with every cursor selection
CursorStep ==
    /\ node_index' >= node_index
    /\ Len(rrLog') = Len(rrLog) + 1 => node_index' = node_index + 1
    /\ node_index' # node_index => Len(rrLog') = Len(rrLog) + 1

\* C6: with round robin and a healthy set of n nodes that does not change,
\* any k*n consecutive selections made through the cursor return every node
\* exactly k times, in the cyclic order of the list; the cursor increases by
\* exactly 1 with each such selection and never decreases.
C6_RoundRobinCyclic == [](algorithm = "round_robin" => RRLogCyclic) /\ [][CursorStep]_vars

\* four selections over a stable set of two nodes: each node twice
C6_Witness ==
    /\ algorithm = "round_robin"
    /\ Len(active_nodes) = 2
    /\ Len(rrLog) = 4

\* b is a node of the list with the least connection count, and the first such
IsFirstMin(b, nodes, stats) ==
    \E i \in 1..Len(nodes) :
        /\ nodes[i] = b
        /\ \A j \in 1..Len(nodes) : stats[nodes[j]].connections >= stats[b].connections
        /\ \A j \in 1..(i - 1) : stats[nodes[j]].connections > stats[b].connections

\* C7: with least_connections every selection made by the algorithm returns a
\* healthy node whose live-connection count is the minimum over the healthy
\* list at the moment of selection, and the first such node of the list.
C7_LeastConnections ==
    [][ (algorithm = "least_connections" /\ h.pc = "idle" /\ h'.pc = "fwd" /\ ~ h'.sticky)
        => IsFirstMin(h'.backend, active_nodes, node_stats) ]_vars

\* the second node of the list was selected because the first holds connections
C7_Witness ==
    /\ algorithm = "least_connections"
    /\ h.pc = "fwd" /\ ~ h.sticky
    /\ Len(active_nodes) = 2
    /\ h.backend = active_nodes[2]
    /\ node_stats[active_nodes[1]].connections >= 1

\* every recorded ip_hash selection is nodes[(sum of character codes) mod len(nodes)]
HashFormula ==
    \A ip \in ClientIPs :
        hashPick[ip] # None
        => /\ active_nodes # <<>>
           /\ hashPick[ip] = active_nodes[(CharSum(ip) % Len(active_nodes)) + 1]

\* while the list is the same, a source's node does not change
HashStable ==
    \A ip \in ClientIPs :
        (hashPick[ip] # None /\ hashPick'[ip] # None /\ active_nodes' = active_nodes)
        => hashPick'[ip] = hashPick[ip]

\* C8: with ip_hash, two selections for the same source address against the
\* same healthy-node list return the same node, whatever happens in between
\* (selections of other sources, health cycles with an unchanged result); the
\* node is nodes[(sum of the character codes of the address) mod len(nodes)].
C8_IpHashStable == []HashFormula /\ [][HashStable]_vars

\* two sources were sent to different nodes of a two-node list
C8_Witness ==
    /\ algorithm = "ip_hash"
    /\ Len(active_nodes) = 2
    /\ hashPick[IP1] = active_nodes[1]
    /\ hashPick[IP2] = active_nodes[2]

\* C9: a node that fails three consecutive health probes is not in the
\* healthy-node list once the cycle of the third probe has ended, and a node
\* whose last probe passed is in the list once that cycle has ended.
C9_FailedThriceRemoved ==
    (phase = "serving" /\ mon.i = 1)
    => \A n \in Range(backend_nodes) :
          /\ streak[n] >= 3 => ~ InList(n, active_nodes)
          /\ streak[n] = 0 => InList(n, active_nodes)

\* the token is host_port, with one underscore, of the node http://host:port
TokenNames(c, node) ==
    \E k \in 1..Len(c) :
        /\ c[k] = "_"
        /\ \A j \in 1..Len(c) : c[j] = "_" => j = k
        /\ node = StickyUrl(SubSeq(c, 1, k - 1), SubSeq(c, k + 1, Len(c)))

\* C10: with sticky sessions enabled, a request whose affinity token names a
\* node of the healthy-node list is sent to that node, whatever the
\* algorithm would pick, and the round-robin cursor keeps its value.
C10_StickyOverride ==
    [][ \A c \in Cookies \ {None}, n \in Nodes :
          (sticky_sessions /\ phase = "serving" /\ h.pc = "idle"
             /\ InList(n, active_nodes) /\ TokenNames(c, n)
             /\ \E ip \in RequestIPs : HandleRequest(ip, c))
          => /\ h'.pc = "fwd"
             /\ h'.backend = n
             /\ node_index' = node_index ]_vars

\* the token sent a request to a node other than the one round robin was at
C10_Witness ==
    /\ sticky_sessions
    /\ algorithm = "round_robin"
    /\ h.pc = "fwd" /\ h.sticky
    /\ Len(active_nodes) = 2
    /\ h.backend # RoundRobinPick(active_nodes, node_index)

\* a step in which the forwarding of the request in hand failed
ForwardFailStep == \E r \in BOOLEAN, st \in {200, 500} : ForwardFail(r, st)

\* C11: every forwarding failure to the chosen node, at any step of connect,
\* request or response, gives the caller a 502 response and nothing else,
\* adds exactly 1 to the error counter of that node and leaves the other
\* nodes' counters alone; no second node is tried for the request and the
\* proxy goes on serving.
C11_ForwardFailureGives502 ==
    [][ ForwardFailStep
        => /\ out' = <<502>>
           /\ node_stats'[h.backend].errors = node_stats[h.backend].errors + 1
           /\ \A n \in Nodes \ {h.backend} : node_stats'[n] = node_stats[n]
           /\ h' = Idle
           /\ phase' = "serving" ]_vars

(***************************************************************************)
(* Claims about the admission layer under store errors and about its       *)
(* connection counters.                                                    *)
(***************************************************************************)

\* a step in which a call of the remote store raised
StoreRaisedStep == storeErrors' = storeErrors + 1

\* what the entry point a request was at did with it when the store raised
FellBack(r) ==
    LET ip == reqs[r].ip
        pc == reqs[r].pc
    IN  CASE pc = "wsgi" ->
               \* the lookup answers from the in-memory set: the request is
               \* passed on unless the middleware's own ceiling is exceeded
               /\ (reqs'[r].pc = "limit_connections")
                     <=> ~ OverLimit(connections[ip] + 1, MAX_CONNECTIONS_PER_IP)
               /\ last'.status # 403
          [] pc = "limit_connections" ->
               /\ reqs'[r].pc = "global_protection"
               /\ IP_CONNECTIONS'[ip] = IP_CONNECTIONS[ip] + 1
          [] pc = "global_protection" ->
               /\ last'.status \in {200, 400}
               /\ last'.status = 200 => reqs'[r].pc = "view"
          [] pc = "view" ->
               /\ last'.status = 200
               /\ \/ /\ IP_REQUEST_COUNTS'[ip] = IP_REQUEST_COUNTS[ip] + 1
                     /\ ANOMALY_TRACKING' = ANOMALY_TRACKING
                  \/ /\ IP_REQUEST_COUNTS' = IP_REQUEST_COUNTS
                     /\ ANOMALY_TRACKING'[ip] = Append(ANOMALY_TRACKING[ip], now)
          [] pc = "after_request" ->
               reqs'[r].status = IF reqs[r].status = 0 THEN 200 ELSE reqs[r].status
          [] pc = "teardown" ->
               IP_CONNECTIONS'[ip] = Max(0, IP_CONNECTIONS[ip] - 1)
          [] OTHER -> FALSE

ConnectionCountIn(db, mem, ip) ==
    IF REDIS_AVAILABLE
    THEN IF db[ConnectionsKey(ip)].live THEN db[ConnectionsKey(ip)].v ELSE 0
    ELSE mem[ip]

ConnectionCount(ip) == ConnectionCountIn(redis, IP_CONNECTIONS, ip)

\* C13: a connection acquisition (limit_connections, the store raising no
\* error) by a source that is neither whitelisted nor blacklisted is rejected
\* with 429 when it brings the connection count of the source above the
\* ceiling and admitted when it brings it to at most the ceiling; the
\* ceiling is MAX_CONNECTIONS_PER_IP, and max(1, MAX_CONNECTIONS_PER_IP div 4)
\* for a request flagged as a slow client.
C13_ConnectionCeiling ==
    [][ \A r \in Slots, slow \in BOOLEAN :
          (/\ LimitConnections(r, slow, 0)
           /\ reqs[r].ip \notin WHITELISTED_IPS
           /\ reqs[r].ip \notin BLACKLISTED_IPS)
          => LET count == ConnectionCount(reqs[r].ip) + 1
                 quarter == MAX_CONNECTIONS_PER_IP \div 4
                 tightened == IF quarter >= 1 THEN quarter ELSE 1
                 ceiling == IF slow THEN tightened ELSE MAX_CONNECTIONS_PER_IP
             IN  IF count > ceiling
                 THEN last'.status = 429 /\ reqs'[r].status = 429
                 ELSE last'.status = 200 /\ reqs'[r].pc = "global_protection" ]_vars

\* in-memory mode: a second connection of a source was refused while its
\* first was live, which happens with the tightened ceiling only
C13_Witness ==
    /\ ~ REDIS_AVAILABLE
    /\ last.ep = "limit_connections" /\ last.status = 429
    /\ last.ip \notin WHITELISTED_IPS
    /\ \E r \in Slots : reqs[r].ip = last.ip /\ reqs[r].pc = "view"
    /\ \E r \in Slots : reqs[r].ip = last.ip /\ reqs[r].status = 429

\* C14: when geo filtering is enabled, the database is present and the
\* lookup of a non-whitelisted public address succeeds, the request is
\* rejected with 403 if an allow-list is configured and the country is not
\* in it, rejected with 403 if the country is in the deny-list, and the
\* handler runs otherwise.
C14_GeoDecision ==
    [][ \A r \in Slots, e \in GeoEnvs :
          (/\ View(r, 0, e)
           /\ last'.status = 200
           /\ e.enabled /\ e.geoip2 /\ e.database /\ e.found
           /\ reqs[r].ip \notin WHITELISTED_IPS
           /\ ~ IsPrivate(reqs[r].ip))
          => reqs'[r].status = IF (e.allowList /\ ~ e.allowed) \/ e.blocked
                               THEN 403 ELSE 200 ]_vars

\* names of the headers the proxy sets itself
ProxyHeaders == {"X-Forwarded-For", "X-Forwarded-Host", "X-Forwarded-Proto", "X-Proxy-ID"}

\* whether a header name is a hop-by-hop one, in any letter case
IsHopByHop(name) == InList(Lower(name), hop_by_hop_headers)

\* C15: no request forwarded to a backend node carries a hop-by-hop header,
\* whatever letter case the client used for its name, and every other
\* client header (the ones the proxy sets itself aside) is forwarded
\* unchanged.
C15_HopByHopStripped ==
    h.pc = "fwd"
    => /\ \A n \in DOMAIN h.headers : ~ IsHopByHop(n)
       /\ \A n \in DOMAIN h.sent :
             (~ IsHopByHop(n) /\ n \notin ProxyHeaders)
             => n \in DOMAIN h.headers /\ h.headers[n] = h.sent[n]

\* a step in which the view of the request in slot r ran
ViewStep(r) == reqs[r].pc = "view" /\ reqs'[r].pc = "after_request"

\* C16: in in-memory mode, a request through rate_limit (of a source neither
\* whitelisted nor blacklisted) that arrives more than CLEANUP_INTERVAL after
\* the last sweep resets the request counters of all sources before counting
\* itself, so that afterwards only its own source has a count, of 1, and
\* sets the time of the last sweep to now; a request within the interval
\* resets nothing and adds 1 to the count of its source; in both cases the
\* connection counters and the blacklist stay as they are.
C16_SweepResetsCounters ==
    [][ \A r \in Slots :
          (/\ ViewStep(r)
           /\ ~ REDIS_AVAILABLE
           /\ reqs[r].ip \notin WHITELISTED_IPS
           /\ reqs[r].ip \notin BLACKLISTED_IPS)
          => /\ IF now - LAST_CLEANUP > CLEANUP_INTERVAL
                THEN /\ IP_REQUEST_COUNTS' = [i \in IPs |-> IF i = reqs[r].ip THEN 1 ELSE 0]
                     /\ LAST_CLEANUP' = now
                ELSE /\ IP_REQUEST_COUNTS' =
                           [IP_REQUEST_COUNTS EXCEPT ![reqs[r].ip] = @ + 1]
                     /\ LAST_CLEANUP' = LAST_CLEANUP
             /\ UNCHANGED <<IP_CONNECTIONS, connections, BLACKLISTED_IPS>> ]_vars

\* the request of one source swept away the count of another source, whose
\* request, counted before, is still being served and still holds its
\* connection
C16_Witness ==
    /\ ~ REDIS_AVAILABLE
    /\ LAST_CLEANUP = CLEANUP_INTERVAL + 1
    /\ last.ep = "rate_limit" /\ last.ip = "1.2.3.4" /\ last.status = 200
    /\ IP_REQUEST_COUNTS = [i \in IPs |-> IF i = "1.2.3.4" THEN 1 ELSE 0]
    /\ IP_CONNECTIONS["8.8.8.8"] = 1
    /\ \E r \in Slots : /\ reqs[r].ip = "8.8.8.8"
                        /\ reqs[r].pc = "after_request"
                        /\ reqs[r].status = 200

\* a step in which teardown ran for the request in slot r, the store raising
\* no error
TeardownStep(r) ==
    /\ reqs[r].pc = "teardown" /\ reqs'[r] = Free
    /\ storeErrors' = storeErrors

\* C17: a request refused by limit_connections because the ceiling is
\* exceeded is decremented exactly once, by limit_connections itself: when
\* it has finished (the 429, then teardown) the connection counter of its
\* source has the value it had before the request, so teardown leaves the
\* counter, which the source's other live connections hold, as it is.
C17_RefusedDecrementedOnce ==
    [][ \A r \in Slots :
          (TeardownStep(r) /\ reqs[r].refused)
          => ConnectionCountIn(redis', IP_CONNECTIONS', reqs[r].ip)
                = ConnectionCount(reqs[r].ip) ]_vars

\* C18: in every reachable state, whatever the order of acquisitions,
\* refusals, completions and errors of concurrent requests, every connection
\* counter of every source (IP_CONNECTIONS, the key connections:<ip> of the
\* remote store, the counter of the WSGI middleware) is >= 0.
C18_CountersNonNegative ==
    \A ip \in IPs :
        /\ IP_CONNECTIONS[ip] >= 0
        /\ redis[ConnectionsKey(ip)].v >= 0
        /\ connections[ip] >= 0

\* a step in which the request in slot r stores an incremented counter
StoresIncrement(r, counter) ==
    \/ counter = "connections" /\ reqs[r].pc = "lc_write" /\ reqs'[r].pc = "lc_check"
    \/ counter = "requests" /\ reqs[r].pc = "rl_write" /\ reqs'[r].pc = "rl_check"

\* a step in which the request in slot r stores a decremented connection counter
StoresDecrement(r) ==
    \/ reqs[r].pc = "lc_undo" /\ reqs'[r].pc = "td_read"
    \/ reqs[r].pc = "td_write" /\ reqs'[r] = Free

\* the requests of a source that rate_limit has admitted and that are being served
Admitted(ip) == {r \in Slots : reqs[r].ip = ip /\ reqs[r].pc = "handler"}

\* C19: in in-memory mode the updates of the shared admission state exclude
\* each other: under any interleaving of the concurrent requests of a source
\* no increment or decrement of its connection counter or request counter is
\* lost (every stored increment raises the counter by 1 over its value at
\* that moment, every stored decrement lowers it by 1, clamped at 0), so at
\* most RATE_LIMIT of the concurrent requests of one window are admitted.
C19_UpdatesAtomic ==
    /\ [](\A ip \in IPs : Cardinality(Admitted(ip)) <= RATE_LIMIT)
    /\ [][ \A r \in Slots :
             /\ StoresIncrement(r, "connections")
                => IP_CONNECTIONS'[reqs[r].ip] = IP_CONNECTIONS[reqs[r].ip] + 1
             /\ StoresIncrement(r, "requests")
                => IP_REQUEST_COUNTS'[reqs[r].ip] = IP_REQUEST_COUNTS[reqs[r].ip] + 1
             /\ StoresDecrement(r)
                => IP_CONNECTIONS'[reqs[r].ip] = Max(0, IP_CONNECTIONS[reqs[r].ip] - 1)
       ]_vars

\* the requests being forwarded to a node (the server handles one at a time)
InFlightTo(n) == IF h.pc = "fwd" /\ h.backend = n THEN 1 ELSE 0

\* C20: in every reachable state, for every backend node with statistics,
\* node_stats[node].connections is the number of requests being forwarded
\* to that node: incremented once on dispatch and decremented once when the
\* request ends, with success or with 502, so it is 0 when no request is in
\* flight and never negative.
C20_ConnectionsAreInFlight ==
    \A n \in Nodes :
        HasStats(node_stats, n) => node_stats[n].connections = InFlightTo(n)

(***************************************************************************)
(* Claims about the rate window of the remote store, the fallback, the     *)
(* blacklist and the cluster view.                                         *)
(***************************************************************************)

\* C21: in remote-store mode the request counter of a source expires
\* RATE_LIMIT_WINDOW after the first request of the window and later
\* requests do not prolong it, so a source that has never sent more than
\* RATE_LIMIT requests within any interval of one window length is not
\* rejected with 429 by rate_limit (the store having raised no error).
C21_WindowNotProlonged ==
    (/\ REDIS_AVAILABLE
     /\ storeErrors = 0
     /\ last.ep = "rate_limit"
     /\ last.ip \notin WHITELISTED_IPS
     /\ sent[last.ip] # Overpaced)
    => last.status # 429

\* the connections a source holds: its requests that limit_connections admitted
Held(ip) ==
    Cardinality({q \in Slots : /\ reqs[q].ip = ip
                               /\ reqs[q].started /\ ~ reqs[q].refused
                               /\ reqs[q].pc \notin {"wsgi", "limit_connections"}})

\* C22: while the remote store is failing the ceilings are still enforced
\* through the local implementation. For a source that is neither whitelisted
\* nor blacklisted and whose rate checks have all raised at the first store
\* call, all of them within one window, the k-th request is rejected with 429
\* for every k above RATE_LIMIT; and a connection acquisition whose store
\* call raises is rejected with 429 when the source already holds as many
\* connections as the ceiling allows.
C22_CeilingEnforcedInOutage ==
    /\ [](  (/\ REDIS_AVAILABLE
             /\ last.ep = "rate_limit"
             /\ last.ip \notin WHITELISTED_IPS
             /\ last.ip \notin BLACKLISTED_IPS
             /\ now < RATE_LIMIT_WINDOW
             /\ ~ redis[RateKey(last.ip)].live
             /\ IP_REQUEST_COUNTS[last.ip] > RATE_LIMIT)
          => last.status = 429 )
    /\ [][ \A r \in Slots, slow \in BOOLEAN :
             (/\ LimitConnectionsWithin(r, slow, 1, MaxOutageErrors)
              /\ reqs[r].ip \notin WHITELISTED_IPS
              /\ reqs[r].ip \notin BLACKLISTED_IPS
              /\ Held(reqs[r].ip) + 1 > ConnectionCeiling(slow))
             => last'.status = 429 ]_vars

\* the request counter, the connection counter and the violation counter of
\* a source, in a store db and the counter maps counts and conns
CountersIn(db, counts, conns, ip) ==
    <<counts[ip], db[RateKey(ip)].v, conns[ip], db[ConnectionsKey(ip)].v,
      db[ViolationKey(ip)].v>>

\* a step of a request of ip: a call of rate_limit on a route wrapped by it,
\* or a stage of the protected application
StepOf(ip) ==
    \/ \E f \in RateFailures : RateLimitedRequest(ip, f)
    \/ \E r \in Slots : reqs[r].ip = ip /\ reqs'[r] # reqs[r]

\* C23: a request from a blacklisted source that is not whitelisted is
\* rejected before any mutation: no step of the request changes the request
\* counter, the connection counter or the violation counter of the source,
\* in both store modes (the store having raised no error).
C23_BlacklistedLeavesCounters ==
    [][ \A ip \in IPs \ WHITELISTED_IPS :
          (IsBlacklisted(ip, FALSE) /\ StepOf(ip) /\ storeErrors' = 0)
          => CountersIn(redis', IP_REQUEST_COUNTS', IP_CONNECTIONS', ip)
               = CountersIn(redis, IP_REQUEST_COUNTS, IP_CONNECTIONS, ip) ]_vars

(***************************************************************************)
(* Claims about the responses of the router, its affinity token and its    *)
(* health monitor.                                                         *)
(***************************************************************************)

\* a step in which handle_request returns or is left by an exception
Answered ==
    \/ h.pc = "fwd" /\ h'.pc = "idle"
    \/ h.pc = "idle" /\ h'.pc = "idle" /\ out' # out

\* C24: every request handled by the router produces exactly one response
\* status line, the upstream status, 502 or 503: a forwarding failure after
\* the upstream status was relayed emits no second status line, and a
\* failure before it emits the 502.
C24_OneStatusLine ==
    [][ Answered => Len(out') = 1 /\ out'[1] \in {200, 500, 502, 503} ]_vars

\* the token of the request names no node of the healthy list: it is
\* absent, empty or malformed, or decodes to a node that is not listed
NamesNoNode(c) ==
    \/ c = None
    \/ \A n \in Range(active_nodes) : ~ TokenNames(c, n)

\* the node the configured algorithm selects for a request of client_ip
FreshSelection(client_ip) ==
    CASE algorithm = "least_connections" -> LeastConnectionsPick(active_nodes, node_stats)
      [] algorithm = "ip_hash" -> IpHashPick(active_nodes, client_ip)
      [] OTHER -> RoundRobinPick(active_nodes, node_index)

\* C25: with sticky sessions enabled and a node in the healthy list, a
\* request whose affinity token is absent, malformed (no underscore, or more
\* than one) or names a node that is not in the healthy list is routed by a
\* fresh selection of the configured algorithm; it never ends in an unhandled
\* error or without a response.
C25_UnusableTokenFallsBack ==
    [][ \A ip \in RequestIPs, c \in Cookies :
          (/\ sticky_sessions /\ active_nodes # <<>>
           /\ NamesNoNode(c)
           /\ HandleRequest(ip, c))
          => /\ h'.pc = "fwd"
             /\ h'.backend = FreshSelection(ip)
             /\ ~ h'.sticky ]_vars

\* C26: the affinity token makes a round trip: for every configured node,
\* with the scheme http or https, the value of the cookie set with a response
\* decodes in select_node, on a request that presents it while the node is
\* healthy, to exactly the URL of that node; and the cookie is set only when
\* sticky sessions are enabled and the status of the response is under 400.
C26_TokenRoundTrip ==
    /\ [](set_cookie # None => sticky_sessions /\ out # <<>> /\ out[1] < 400)
    /\ [][ \A st \in {200, 500} :
             (ForwardOk(st) /\ set_cookie' # None)
             => StickyPick(<<h.backend>>, set_cookie') = h.backend ]_vars

\* the configured nodes whose last probe succeeded, in configuration order
ProbedHealthy == SelectSeq(backend_nodes, LAMBDA n : streak[n] = 0)

\* C27: after every health cycle the healthy-node list is exactly the
\* configured nodes whose probe succeeded in that cycle, in configuration
\* order; it is installed by one replacement, so that every state holds a
\* complete list of some cycle; and no step of a cycle changes the
\* round-robin cursor or the connection, request and error counters of a
\* node that has a record.
C27_ListIsProbeResult ==
    /\ []((phase = "serving" /\ mon.i = 1) => active_nodes = ProbedHealthy)
    /\ [][ /\ node_index' = node_index
           /\ \A n \in Nodes : HasStats(node_stats, n) => node_stats'[n] = node_stats[n]
           /\ active_nodes' # active_nodes
                => active_nodes' = SelectSeq(backend_nodes, LAMBDA n : streak'[n] = 0) ]_vars

\* C28: in every reachable state every node of the healthy-node list has a
\* statistics record, so that the least-connections selection finds the
\* record of every node it compares; a record once created is never deleted
\* or reset: it changes only by the counting of a request, and its request
\* and error counters never decrease; and the node select_node returns is a
\* member of the healthy-node list at the moment of the selection.
C28_RecordsKept ==
    /\ [](\A n \in Range(active_nodes) : HasStats(node_stats, n))
    /\ [][ /\ \A n \in Nodes :
                HasStats(node_stats, n)
                => /\ HasStats(node_stats', n)
                   /\ node_stats'[n].requests >= node_stats[n].requests
                   /\ node_stats'[n].errors >= node_stats[n].errors
                   /\ h' = h => node_stats'[n] = node_stats[n]
           /\ (h.pc = "idle" /\ h'.pc = "fwd") => InList(h'.backend, active_nodes) ]_vars

\* a node that has served a request is out of the healthy list, and its record
\* still holds the request, while least connections selects among the others
C28_Witness ==
    /\ algorithm = "least_connections"
    /\ h.pc = "fwd"
    /\ \E n \in Range(backend_nodes) :
          /\ ~ InList(n, active_nodes)
          /\ HasStats(node_stats, n)
          /\ node_stats[n].requests >= 1

\* C29: every read and every write of the cluster view is made under the
\* cluster lock, the reads of /proxy/status included: while the handler of
\* /proxy/status is reading the view, no other thread changes the
\* healthy-node list or the statistics map, and what it reports is the view
\* of one moment.
C29_StatusReadsUnderLock ==
    /\ [](h.pc = "status"
            => /\ h.view.active_nodes = active_nodes
               /\ h.view.keys = StatsKeys(node_stats))
    /\ [][ h.pc = "status"
             => active_nodes' = active_nodes /\ node_stats' = node_stats ]_vars

\* C30: under fair scheduling the health monitor runs probe cycles for ever,
\* an exception raised inside a cycle not ending them: once the proxy has
\* come up, a configured node whose probes succeed from some point on is
\* eventually in the healthy-node list and stays in it, and a node whose
\* probes fail from some point on is eventually out of it and stays out.
C30_MonitorConverges ==
    \A n \in Nodes :
        /\ ([](phase # "crashed") /\ <>[](InList(n, backend_nodes) /\ streak[n] = 0))
              => <>[]InList(n, active_nodes)
        /\ ([](phase # "crashed") /\ <>[](InList(n, backend_nodes) /\ streak[n] > 0))
              => <>[](~ InList(n, active_nodes))

(***************************************************************************)
(* Claims about the release of connections, the life of a blacklist entry, *)
(* the whitelist, the in-memory window, the geo filter, the anomaly        *)
(* tracking and the WSGI middleware.                                       *)
(***************************************************************************)

\* no request of the source is in flight
Quiet(ip) == \A r \in Slots : reqs[r].ip # ip

\* C31: a connection is released against the counter it was acquired on,
\* whatever the store does at acquisition and at release: every completed
\* request leaves the in-memory and the remote connection counter of its
\* source as they were before it, so that with the remote store configured
\* both counters of a source that has no request in flight are 0.
C31_ReleasedWhereAcquired ==
    \A ip \in IPs \ WHITELISTED_IPS :
        (REDIS_AVAILABLE /\ Quiet(ip))
        => IP_CONNECTIONS[ip] = 0 /\ redis[ConnectionsKey(ip)].v = 0

\* the protected application serving one source, with the remote store
\* answering every call, over a time as long as BLACKLIST_DURATION
ListingNext ==
    \/ \E ip \in AppIPs \ WHITELISTED_IPS : Start(ip) /\ UNCHANGED proxyVars
    \/ \E r \in Slots : Middleware(r, FALSE) /\ UNCHANGED proxyVars
    \/ \E r \in Slots, slow \in BOOLEAN : LimitConnections(r, slow, 0) /\ UNCHANGED proxyVars
    \/ \E r \in Slots : GlobalProtection(r, FALSE, TRUE) /\ UNCHANGED proxyVars
    \/ \E r \in Slots, e \in GeoEnvs : View(r, 0, e) /\ UNCHANGED proxyVars
    \/ \E r \in Slots : MonitorResponseTime(r, FALSE, 0) /\ UNCHANGED proxyVars
    \/ \E r \in Slots : StartResponse(r) /\ UNCHANGED proxyVars
    \/ \E r \in Slots : Teardown(r, 0) /\ UNCHANGED proxyVars
    \/ \E ip \in AppIPs \ WHITELISTED_IPS :
          RateLimitedRequest(ip, 0) /\ UNCHANGED <<proxyVars, pipeVars>>
    \/ Tick /\ UNCHANGED <<proxyVars, pipeVars>>

InitListing == InitAdm /\ REDIS_AVAILABLE
SpecListing == InitListing /\ [][ListingNext]_vars

\* the source has a violation on record: the store keeps violations:<ip> for
\* BLACKLIST_DURATION after the last violation of ip
RecentViolation(ip) == Exists(redis, ViolationKey(ip))

\* a call of one of the entry points that answer 403 to a listed source
CallBy(ip) ==
    \/ RateLimitedRequest(ip, 0)
    \/ \E r \in Slots, slow \in BOOLEAN : reqs[r].ip = ip /\ LimitConnections(r, slow, 0)
    \/ \E r \in Slots : reqs[r].ip = ip /\ GlobalProtection(r, FALSE, TRUE)

\* C32: a blacklist entry does not outlive its duration: when
\* BLACKLIST_DURATION has passed since the last violation of a source, so
\* that the store holds no violation record of it any more, its next request
\* is not rejected as forbidden.
C32_ListingEnds ==
    [][\A ip \in IPs \ WHITELISTED_IPS :
          (CallBy(ip) /\ ~ RecentViolation(ip)) => last'.status # 403]_vars

\* the store holds neither a blacklist flag nor a violation counter of ip
NoRemoteRecord(ip) ==
    ~ Exists(redis, BlacklistKey(ip)) /\ ~ Exists(redis, ViolationKey(ip))

\* C33: no request puts a whitelisted address on a blacklist: the remote store
\* never holds a blacklist flag or a violation counter of a whitelisted address,
\* and a step that adds one to the in-memory set is the operator's, never a
\* request's, whatever the store raises.
C33_WhitelistNeverListed ==
    /\ [](\A ip \in WHITELISTED_IPS : NoRemoteRecord(ip))
    /\ [][\A ip \in WHITELISTED_IPS :
             (ip \in BLACKLISTED_IPS' /\ ip \notin BLACKLISTED_IPS)
             => (BlacklistAdd(ip) /\ UNCHANGED pipeVars)]_vars

\* two requests of a whitelisted address are in flight with the remote store
\* in use, past limit_connections and past rate_limit: more than the ceiling
\* of a slow client and more than RATE_LIMIT
C33_Witness ==
    /\ REDIS_AVAILABLE
    /\ \A r \in Slots : reqs[r].ip \in WHITELISTED_IPS /\ reqs[r].pc = "after_request"
    /\ \A ip \in WHITELISTED_IPS : ip \notin BLACKLISTED_IPS

\* C34: in memory, with requests handled one at a time, rate_limit admits at
\* most twice the ceiling of requests of one source within any interval of
\* one window length: counted at every admission over the window that ends
\* with it.
C34_BurstAtMostDouble ==
    \A ip \in IPs \ WHITELISTED_IPS :
        ~ REDIS_AVAILABLE => Len(admitted[ip]) <= 2 * RATE_LIMIT

\* a source has been admitted twice the ceiling within one window length,
\* across a sweep
C34_Witness ==
    /\ ~ REDIS_AVAILABLE
    /\ RATE_LIMIT = MaxRateLimit
    /\ \E ip \in IPs \ WHITELISTED_IPS :
          /\ Len(admitted[ip]) = 2 * RATE_LIMIT
          /\ admitted[ip][1] < LAST_CLEANUP
          /\ admitted[ip][1] >= now - RATE_LIMIT_WINDOW

\* the rules of geo_filter reject the request: the filter is in force for the
\* address, the lookup succeeded and the country fails the allow-list or is
\* on the deny-list
RuleRejects(ip, e) ==
    /\ e.enabled /\ e.geoip2 /\ e.database /\ e.found
    /\ ~ Whitelisted(ip) /\ ~ IsPrivate(ip)
    /\ (e.allowList /\ ~ e.allowed) \/ e.blocked

\* C35: geo_filter fails open and never by accident: for a request that
\* rate_limit let through, the handler runs when the filter is disabled, the
\* library or the database is missing, the address is whitelisted, private or
\* loopback, or the lookup raises, and in no other case against the rules: a
\* request that the rules reject does not reach the handler.
C35_GeoFailsOpenOnly ==
    [][ \A r \in Slots, e \in GeoEnvs :
          (View(r, 0, e) /\ last'.status = 200)
          => /\ (~ e.enabled \/ ~ e.geoip2 \/ ~ e.database \/ ~ e.found
                 \/ Whitelisted(reqs[r].ip) \/ IsPrivate(reqs[r].ip))
                => reqs'[r].status = 200
             /\ RuleRejects(reqs[r].ip, e) => reqs'[r].status # 200 ]_vars

\* a list of timestamps in time order
InTimeOrder(stamps) == \A i, j \in 1..Len(stamps) : i < j => stamps[i] <= stamps[j]

\* C36: after every call of track_request_for_anomaly that uses the in-memory
\* list (in-memory mode, or the store raising in the call), the list of the
\* source is in time order, ends with the current time and holds nothing
\* older than ANOMALY_WINDOW, and the anomaly signal is emitted exactly when
\* the length of the list exceeds the baseline.
C36_TrackingWindow ==
    [][ \A ip \in IPs \ WHITELISTED_IPS, f \in RateFailures :
          (/\ RateLimitedRequest(ip, f)
           /\ ANOMALY_DETECTION_ENABLED
           /\ ip \notin BLACKLISTED_IPS
           /\ last'.status = 200
           /\ ~ REDIS_AVAILABLE \/ f = 7)
          => LET stamps == ANOMALY_TRACKING'[ip] IN
             /\ InTimeOrder(stamps)
             /\ stamps # <<>> /\ stamps[Len(stamps)] = now
             /\ \A i \in 1..Len(stamps) : stamps[i] >= now - ANOMALY_WINDOW
             /\ last'.signal <=> ExceedsBaseline(Len(stamps)) ]_vars

\* routes wrapped by rate_limit alone, with the anomaly detection enabled or
\* disabled
InitDetector == AdmStart(BOOLEAN) /\ ProxyQuiet
SpecDetector == InitDetector /\ [][RateNext]_vars

\* the outcome of a request of ip through rate_limit as the ceiling, the
\* whitelist and the blacklist alone decide it: the status and the counters
\* of the module and of the store afterwards
Verdict(ip, failAt) ==
    LET r == RemoteRate(redis, ip, RATE_LIMIT, now, failAt)
        counts == [SweptCounts(IP_REQUEST_COUNTS, now, LAST_CLEANUP) EXCEPT ![ip] = @ + 1]
        Same(status) == [status |-> status, counts |-> IP_REQUEST_COUNTS,
                         cleanup |-> LAST_CLEANUP, db |-> redis]
    IN  IF Whitelisted(ip) THEN Same(200)
        ELSE IF BlockedByRateLimit(ip, BLACKLISTED_IPS) THEN Same(403)
        ELSE IF REDIS_AVAILABLE
        THEN [status |-> IF r.abort THEN 429 ELSE 200,
              counts |-> IF r.except THEN [IP_REQUEST_COUNTS EXCEPT ![ip] = @ + 1]
                         ELSE IP_REQUEST_COUNTS,
              cleanup |-> LAST_CLEANUP, db |-> r.db]
        ELSE [status |-> IF OverLimit(counts[ip], RATE_LIMIT) THEN 429 ELSE 200,
              counts |-> counts,
              cleanup |-> IF SweepDue(now, LAST_CLEANUP) THEN now ELSE LAST_CLEANUP,
              db |-> redis]

\* C37: the anomaly detector is not a gate: the status of a request through
\* rate_limit and the request counters, the violation counters, the blacklist
\* and the connection counters after it are what the ceiling, the whitelist
\* and the blacklist decide, whether the detection is enabled or disabled,
\* whether it emits a signal or not and whether its store call raises.
C37_DetectorIsNoGate ==
    [][ \A ip \in IPs, f \in RateFailures :
          RateLimitedRequest(ip, f)
          => /\ last'.status = Verdict(ip, f).status
             /\ IP_REQUEST_COUNTS' = Verdict(ip, f).counts
             /\ LAST_CLEANUP' = Verdict(ip, f).cleanup
             /\ redis' = Verdict(ip, f).db
             /\ UNCHANGED <<BLACKLISTED_IPS, IP_CONNECTIONS, connections>> ]_vars

\* a request was admitted although the detector emitted a signal for it
C37_Witness ==
    /\ ANOMALY_DETECTION_ENABLED
    /\ last.ep = "rate_limit" /\ last.status = 200 /\ last.signal
    /\ RATE_LIMIT = MaxRateLimit

\* the WSGI middleware refused the request in slot r: the application is not
\* called and the slot is free again
Refused(r, fail) == Middleware(r, fail) /\ reqs'[r] = Free

\* C38: when the WSGI middleware refuses a request, of a blacklisted source
\* or of a source over the connection ceiling, the server's start_response
\* has been called with 403 or 429 when the body is returned (last.status is
\* the status line handed to the server, 0 when there was none), and the
\* wrapped application is not called.
C38_RefusalHasStatusLine ==
    [][ \A r \in Slots, f \in BOOLEAN :
          Refused(r, f) => last'.status \in {403, 429} ]_vars

(***************************************************************************)
(* The WSGI middleware around an arbitrary application: the application    *)
(* calls the start_response it is given some number of times and returns   *)
(* or raises.                                                              *)
(***************************************************************************)

\* what the wrapped application does: the number of its calls of
\* start_response (the second with exc_info) and whether it raises afterwards
AppRuns == {[calls |-> 1, raises |-> FALSE], [calls |-> 2, raises |-> FALSE],
            [calls |-> 1, raises |-> TRUE], [calls |-> 0, raises |-> TRUE]}

\* self.connections[client_ip] = max(0, self.connections[client_ip] - 1), n times
RECURSIVE Released(_, _)
Released(count, n) == IF n = 0 THEN count ELSE Released(Max(0, count - 1), n - 1)

\* the try statement of SlowlorisProtectionMiddleware.__call__ for an admitted
\* request: custom_start_response decrements the counter at every call, the
\* except clause decrements it when the application raises
WrappedApp(r, run) ==
    LET ip == reqs[r].ip
        releases == run.calls + (IF run.raises THEN 1 ELSE 0)
    IN  /\ reqs[r].pc = "limit_connections"
        /\ connections' = IF reqs[r].counted
                          THEN [connections EXCEPT ![ip] = Released(@, releases)]
                          ELSE connections
        /\ reqs' = [reqs EXCEPT ![r] = Free]
        /\ UNCHANGED <<configVars, now, rateVars, BLACKLISTED_IPS, redis, storeErrors,
                       IP_CONNECTIONS, arrivals, windowVars, owed, rejections, last>>

WsgiNext ==
    \/ \E ip \in AppIPs : Start(ip) /\ UNCHANGED proxyVars
    \/ \E r \in Slots, f \in Fails : Middleware(r, f) /\ UNCHANGED proxyVars
    \/ \E r \in Slots, run \in AppRuns : WrappedApp(r, run) /\ UNCHANGED proxyVars
    \/ \E ip \in AppIPs \ WHITELISTED_IPS :
          BlacklistAdd(ip) /\ UNCHANGED <<proxyVars, pipeVars>>

InitWsgi == AdmInit /\ RATE_LIMIT = 1 /\ ProxyQuiet
SpecWsgi == InitWsgi /\ [][WsgiNext]_vars

\* the requests of the source that the middleware has admitted and whose
\* application has not finished
Inside(ip) == Cardinality({r \in Slots : reqs[r].ip = ip /\ reqs[r].pc = "limit_connections"})

\* C39: the WSGI middleware releases each admitted connection exactly once,
\* whether the application calls start_response once, calls it again with
\* exc_info, raises after calling it or raises without calling it: the
\* counter of a source is the number of its requests inside the middleware,
\* and so 0 when there is none.
C39_ReleasedOnce ==
    \A ip \in IPs \ WHITELISTED_IPS : connections[ip] = Inside(ip)

====
